---- MODULE Spec2Model ----
(***************************************************************************)
(* Model of the catalog data-quality analyzer (src/analyzer.py, src/config.py, *)
(* src/metrics/*.py).                                                      *)
(*                                                                         *)
(* Representation.                                                         *)
(*  - A cell is Null (pandas NaN/None) or <<s>> with s a string, and a     *)
(*    string is a sequence of one-character strings, so that len, strip and *)
(*    the character-class counts are computed and not assumed.             *)
(*  - A row is a function from column names to cells.                      *)
(*  - The DataFrame df is the multiset of its rows (a function from the    *)
(*    distinct rows to their positive multiplicities).  Every statistic    *)
(*    modelled here is a count, sum, min, max or mean over rows or groups, *)
(*    which does not depend on the row order.                              *)
(*  - A percentage or score is an integer number of hundredths (Centi);    *)
(*    NaN is the float not-a-number that numpy's 0/0 produces.             *)
(*  - round(x, k) is modelled on the exact value of x, ties to even.  The  *)
(*    float x of the code carries a representation error far below the     *)
(*    rounding unit, which decides the result only where the exact value   *)
(*    lies half way between two results.  For the weighted sum of          *)
(*    _calculate_overall_score, which is also compared with the band       *)
(*    limits, the sign of that error is the input fperr.                   *)
(***************************************************************************)
EXTENDS Integers, Sequences, FiniteSets, TLC

VARIABLES
    df,               \* self.df
    product_id_col,   \* self.product_id_col
    description_col,  \* self.description_col
    code_cols,        \* self.code_cols, a sequence of column names
    min_samples,      \* the min_samples argument of analyze_classifier_readiness
    args,             \* the column roles DataQualityAnalyzer was constructed with
    weights,          \* config.WEIGHTS, the module-level dict the aggregator reads
    fperr,            \* the sign of the representation error of the float weighted sum
    results,          \* self.results
    returned,         \* how each call of analyze_all so far has ended, oldest first
    pc                \* the next step of analyze_all, or "done", or "raised"

\* what a run of analyze_all reads and never writes
inputs ==
    <<df, product_id_col, description_col, code_cols, min_samples, args, weights, fperr>>

vars == <<inputs, results, returned, pc>>

(***************************************************************************)
(* Bounds of the model.                                                    *)
(***************************************************************************)
\* the largest number of distinct rows of a generated dataset
MaxDistinctRows == 2
\* the same, for the datasets the classifier-readiness analyzer is run on alone
MaxDistinctLabelled == 3

(***************************************************************************)
(* Numbers.                                                                *)
(***************************************************************************)
\* hundredths per unit: a value x with 2 decimals is the integer x * Centi
Centi == 100

\* float('nan'): the result of numpy's scalar 0/0 and of the mean of nothing
NaN == -1

IsNaN(x) == x = NaN

RECURSIVE SumF(_)
\* the sum of a function's values
SumF(f) ==
    IF DOMAIN f = {} THEN 0
    ELSE LET x == CHOOSE y \in DOMAIN f : TRUE
         IN  f[x] + SumF([y \in DOMAIN f \ {x} |-> f[y]])

RECURSIVE SumSeq(_)
SumSeq(s) == IF s = <<>> THEN 0 ELSE Head(s) + SumSeq(Tail(s))

Max2(a, b) == IF a >= b THEN a ELSE b
Min2(a, b) == IF a <= b THEN a ELSE b

SetMax(S) == CHOOSE x \in S : \A y \in S : y <= x
SetMin(S) == CHOOSE x \in S : \A y \in S : x <= y

\* round(n / d) to the nearest integer, ties to even (n >= 0, d > 0): what
\* round(x, k) does once x is scaled by 10^k
RoundDiv(n, d) ==
    LET q == n \div d
        r == n % d
    IN  IF 2 * r < d THEN q
        ELSE IF 2 * r > d THEN q + 1
        ELSE IF q % 2 = 0 THEN q ELSE q + 1

(***************************************************************************)
(* Strings and cells.                                                      *)
(***************************************************************************)
Null == <<>>
Str(s) == <<s>>

Whitespace == {" ", "\t"}
Digits == {"0", "1", "2", "3", "4", "5", "6", "7", "8", "9"}
Letters == {"a", "b", "c", "n", "x", "y", "A", "B", "C"}

\* n copies of the character c
Rep(c, n) == [i \in 1..n |-> c]

RECURSIVE LStrip(_)
LStrip(s) == IF s # <<>> /\ Head(s) \in Whitespace THEN LStrip(Tail(s)) ELSE s

RECURSIVE RStrip(_)
RStrip(s) ==
    IF s # <<>> /\ s[Len(s)] \in Whitespace THEN RStrip(SubSeq(s, 1, Len(s) - 1)) ELSE s

\* str.strip()
Strip(s) == RStrip(LStrip(s))

\* Series.astype(str) on one cell: a missing value becomes the text 'nan'
AsTypeStr(cell) == IF cell = Null THEN <<"n", "a", "n">> ELSE cell[1]

\* the cells counted by .astype(str).str.strip().ne('')
NonEmpty(cell) == Strip(AsTypeStr(cell)) # <<>>

NotNa(cell) == cell # Null

(***************************************************************************)
(* The DataFrame.                                                          *)
(***************************************************************************)
EmptyFrame == <<>>

\* df.columns: the frames, the empty one too, have the first four of these
\* columns; the frames of four code columns have them all
Columns ==
    IF \E r \in DOMAIN df : "code_3" \in DOMAIN r
    THEN <<"product_id", "description", "code_1", "code_2", "code_3", "code_4">>
    ELSE <<"product_id", "description", "code_1", "code_2">>

\* len(df)
NRows(d) == SumF(d)

\* the number of rows r of d with P[r], P a function from rows to BOOLEAN
CountRows(d, P) == SumF([r \in {x \in DOMAIN d : P[x]} |-> d[r]])

\* the elements of a sequence
Range(s) == {s[i] : i \in DOMAIN s}

RECURSIVE FirstByCount(_, _, _)
\* the first n values of S in the order of value_counts, the larger count
\* first; values of equal count follow the order of the rows, which the
\* multiset does not hold: a fixed order of the values stands for it
FirstByCount(vc, S, n) ==
    IF n = 0 \/ S = {} THEN {}
    ELSE LET x == CHOOSE v \in S : \A u \in S : vc[v] >= vc[u]
         IN  {x} \cup FirstByCount(vc, S \ {x}, n - 1)

\* the length of a top listing: head(10)
TOP_LISTED == 10

\* Series.head(10).to_dict() of the entries S of value counts vc
Head10(vc, S) == [v \in FirstByCount(vc, S, TOP_LISTED) |-> vc[v]]

\* df[col] raises KeyError for a name that is no column
NoColumn(col) == col \notin Range(Columns)

(***************************************************************************)
(* metrics/completeness.py                                                 *)
(***************************************************************************)
\* one entry of column_completeness
MissingCount(total_rows, non_null, non_empty) == total_rows - non_empty

ColumnCompleteness(d, col) ==
    LET total_rows == NRows(d)
        non_null == CountRows(d, [r \in DOMAIN d |-> NotNa(r[col])])
        non_empty == CountRows(d, [r \in DOMAIN d |-> NonEmpty(r[col])])
    IN  [ non_null_count |-> non_null,
          non_empty_count |-> non_empty,
          completeness_pct |->
              IF total_rows = 0 THEN NaN
              ELSE RoundDiv(non_empty * 100 * Centi, total_rows),
          missing_count |-> MissingCount(total_rows, non_null, non_empty) ]

\* code_data.notna().sum(axis=1) for one row
CodeCompleteness(r, cols) ==
    Cardinality({i \in DOMAIN cols : NotNa(r[cols[i]])})

IsPartial(cc, n) == cc > 0 /\ cc < n

RowCompleteness(d, cols) ==
    LET n == Len(cols)
        cc == [r \in DOMAIN d |-> CodeCompleteness(r, cols)]
    IN  [ all_codes_present |-> CountRows(d, [r \in DOMAIN d |-> cc[r] = n]),
          no_codes_present |-> CountRows(d, [r \in DOMAIN d |-> cc[r] = 0]),
          partial_codes |-> CountRows(d, [r \in DOMAIN d |-> IsPartial(cc[r], n)]),
          avg_codes_per_row |->
              IF NRows(d) = 0 THEN NaN
              ELSE RoundDiv(SumF([r \in DOMAIN d |-> cc[r] * d[r]]) * Centi, NRows(d)) ]

\* round(np.mean(xs), 2) of values already in hundredths; nan if any is nan
MeanCenti(xs) ==
    IF xs = <<>> \/ \E i \in DOMAIN xs : IsNaN(xs[i]) THEN NaN
    ELSE RoundDiv(SumSeq(xs), Len(xs))

RECURSIVE Dedup(_)
\* the keys of a dict filled in the order of s: each name once, first occurrence kept
Dedup(s) ==
    IF s = <<>> THEN <<>>
    ELSE LET rest == Dedup(SubSeq(s, 1, Len(s) - 1))
         IN  IF s[Len(s)] \in Range(rest) THEN rest ELSE Append(rest, s[Len(s)])

\* the columns analysed, in dict order
AnalysedColumnsPresent(pid, desc, cols) ==
    SelectSeq(Dedup(<<pid, desc>> \o cols), LAMBDA c : ~NoColumn(c))
AnalysedColumns(pid, desc, cols) == Dedup(<<pid, desc>> \o cols)

\* df[col] in the loop over the columns, or df[code_cols] after it, raises
\* KeyError
CompletenessRaises(pid, desc, cols) ==
    \/ \E col \in Range(AnalysedColumns(pid, desc, cols)) : NoColumn(col)
    \/ \E col \in Range(cols) : NoColumn(col)

analyze_completeness(d, pid, desc, cols) ==
    LET keys == AnalysedColumns(pid, desc, cols)
        cc == [col \in Range(keys) |-> ColumnCompleteness(d, col)]
    IN  [ total_rows |-> NRows(d),
          column_completeness |-> cc,
          row_completeness |-> RowCompleteness(d, cols),
          overall_score |->
              MeanCenti([i \in DOMAIN keys |-> cc[keys[i]].completeness_pct]) ]

(***************************************************************************)
(* metrics/description_quality.py                                          *)
(* (the vocabulary statistics and the standard deviation are not modelled: *)
(* they feed neither a flag nor the score)                                 *)
(***************************************************************************)
\* the default of the min_length parameter
MIN_DESCRIPTION_LENGTH == 20

\* descriptions = df[description_col].dropna().astype(str), as text -> number of rows
Descriptions(d, desc) ==
    LET texts == {r[desc][1] : r \in {x \in DOMAIN d : NotNa(x[desc])}}
    IN  [t \in texts |-> CountRows(d, [r \in DOMAIN d |-> r[desc] = Str(t)])]

\* the length of str.replace(r'[^0-9]', '') of a text
NumDigits(t) == Cardinality({i \in DOMAIN t : t[i] \in Digits})

\* the length of str.replace(r'[a-zA-Z0-9\s]', '') of a text
NumSpecial(t) == Cardinality({i \in DOMAIN t : t[i] \notin (Letters \cup Digits \cup Whitespace)})

\* lengths < min_length
TooShort(t, min_length) == Len(t) < min_length

\* digits / length > 0.5 (0/0 is nan, and nan > 0.5 is False)
MostlyNumeric(t) == Len(t) > 0 /\ 2 * NumDigits(t) > Len(t)

\* specials / length > 0.3
HighSpecialChars(t) == Len(t) > 0 /\ 10 * NumSpecial(t) > 3 * Len(t)

\* the number of rows whose description satisfies P
CountTexts(ds, P) == SumF([t \in {u \in DOMAIN ds : P[u]} |-> ds[t]])

\* the median of the lengths, times 2 (the mean of the two middle values when
\* their number is even)
MedianTimes2(ds) ==
    LET n == SumF(ds)
        \* the k-th smallest length, k in 1..n
        kth(k) == CHOOSE l \in {Len(t) : t \in DOMAIN ds} :
                      /\ CountTexts(ds, [t \in DOMAIN ds |-> Len(t) < l]) < k
                      /\ CountTexts(ds, [t \in DOMAIN ds |-> Len(t) <= l]) >= k
    IN  IF n % 2 = 1 THEN 2 * kth((n + 1) \div 2)
        ELSE kth(n \div 2) + kth(n \div 2 + 1)

\* df[description_col] raises KeyError for a missing column, and
\* int(lengths.min()) raises ValueError when no description is left
DescriptionQualityRaises(d, desc) ==
    IF NoColumn(desc) THEN TRUE ELSE DOMAIN Descriptions(d, desc) = {}

\* one capped penalty, times n: min(count / n * 100, cap) * n
Penalty(count, n, cap) == Min2(100 * count, cap * n)

\* the score before rounding, times n
\* 100 - min(too_short/n*100, 30) - min(dups/n*100, 20) - min(numeric/n*100, 20)
ScoreJointCap(too_short, dups, numeric, n) ==
    100 * n - Min2(100 * (too_short + dups + numeric), 30 * n)
ScoreTimesN(too_short, dups, numeric, n) ==
    100 * n - Penalty(too_short, n, 30) - Penalty(dups, n, 20) - Penalty(numeric, n, 20)

\* duplicate_descriptions[duplicate_descriptions > 1]
DuplicatesWithSingles(ds) == {t \in DOMAIN ds : ds[t] >= 1}
Duplicates(ds) == {t \in DOMAIN ds : ds[t] > 1}

analyze_description_quality(d, desc, min_length) ==
    LET ds == Descriptions(d, desc)
        n == SumF(ds)
        lens == {Len(t) : t \in DOMAIN ds}
        too_short == CountTexts(ds, [t \in DOMAIN ds |-> TooShort(t, min_length)])
        mostly_numeric == CountTexts(ds, [t \in DOMAIN ds |-> MostlyNumeric(t)])
        high_special == CountTexts(ds, [t \in DOMAIN ds |-> HighSpecialChars(t)])
        duplicates == Duplicates(ds)
        score == ScoreTimesN(too_short, Cardinality(duplicates), mostly_numeric, n)
    IN  [ length_stats |->
              [ mean |-> RoundDiv(SumF([t \in DOMAIN ds |-> Len(t) * ds[t]]) * Centi, n),
                median |-> RoundDiv(MedianTimes2(ds) * Centi, 2),
                min |-> SetMin(lens),
                max |-> SetMax(lens) ],
          quality_flags |->
              [ too_short |-> too_short,
                too_short_pct |-> RoundDiv(too_short * 100 * Centi, n),
                mostly_numeric |-> mostly_numeric,
                high_special_chars |-> high_special ],
          duplicates |->
              [ duplicate_count |-> Cardinality(duplicates),
                total_duplicate_rows |->
                    SumF([t \in duplicates |-> ds[t]]) - Cardinality(duplicates),
                top_duplicates |-> Head10(ds, duplicates) ],
          overall_score |-> RoundDiv(Max2(score, 0) * Centi, n) ]

(***************************************************************************)
(* metrics/classifier_readiness.py                                         *)
(***************************************************************************)
\* the default of the min_samples parameter
MIN_TRAINING_SAMPLES == 50

\* dict.get(key, default)
Get(rec, key, default) == IF key \in DOMAIN rec THEN rec[key] ELSE default

RECURSIVE GCD(_, _)
GCD(a, b) == IF b = 0 THEN a ELSE GCD(b, a % b)

\* a fraction in lowest terms, as <<numerator, denominator>>
Frac(n, d) == LET g == GCD(n, d) IN <<n \div g, d \div g>>
FracAdd(x, y) == Frac(x[1] * y[2] + y[1] * x[2], x[2] * y[2])

RECURSIVE FracSum(_)
\* the sum of a function's values, each a fraction
FracSum(f) ==
    IF DOMAIN f = {} THEN <<0, 1>>
    ELSE LET x == CHOOSE y \in DOMAIN f : TRUE
         IN  FracAdd(f[x], FracSum([y \in DOMAIN f \ {x} |-> f[y]]))

\* valid_data = df[[description_col, col]].dropna()
ValidRows(d, desc, col) == {r \in DOMAIN d : NotNa(r[desc]) /\ NotNa(r[col])}

\* valid_data[col].value_counts(): class -> number of valid rows
ClassCounts(d, desc, col) ==
    LET valid == ValidRows(d, desc, col)
    IN  [c \in {r[col][1] : r \in valid} |->
            SumF([r \in {x \in valid : x[col] = Str(c)} |-> d[r]])]

\* (class_counts >= min_samples).sum()
ClassesAboveMinSamples(cc, m) == Cardinality({c \in DOMAIN cc : cc[c] > m})
ClassesWithMinSamples(cc, m) == Cardinality({c \in DOMAIN cc : cc[c] >= m})

\* valid_data.groupby(description_col)[col].nunique() > 1, summed
AmbiguousCountingCodes(d, desc, col) ==
    LET valid == ValidRows(d, desc, col)
        codes(t) == {r[col][1] : r \in {x \in valid : x[desc] = Str(t)}}
    IN  SumF([t \in {r[desc][1] : r \in valid} |->
                 IF Cardinality(codes(t)) > 1 THEN Cardinality(codes(t)) ELSE 0])
AmbiguousDescriptions(d, desc, col) ==
    LET valid == ValidRows(d, desc, col)
        codes(t) == {r[col][1] : r \in {x \in valid : x[desc] = Str(t)}}
    IN  Cardinality({t \in {r[desc][1] : r \in valid} : Cardinality(codes(t)) > 1})

\* the mean over the classes of nunique / count of the descriptions, times 10^4
\* and rounded
AvgDescriptionUniqueness(d, desc, col) ==
    LET valid == ValidRows(d, desc, col)
        cc == ClassCounts(d, desc, col)
        nuniq(c) == Cardinality({r[desc][1] : r \in {x \in valid : x[col] = Str(c)}})
        total == FracSum([c \in DOMAIN cc |-> Frac(nuniq(c), cc[c])])
    IN  RoundDiv(total[1] * 10000, total[2] * Cardinality(DOMAIN cc))

\* the median of the class sizes, times 2
MedianClassTimes2(cc) ==
    LET n == Cardinality(DOMAIN cc)
        kth(k) == CHOOSE s \in {cc[c] : c \in DOMAIN cc} :
                      /\ Cardinality({c \in DOMAIN cc : cc[c] < s}) < k
                      /\ Cardinality({c \in DOMAIN cc : cc[c] <= s}) >= k
    IN  IF n % 2 = 1 THEN 2 * kth((n + 1) \div 2)
        ELSE kth(n \div 2) + kth(n \div 2 + 1)

split_recommendation_closed_tiers(smallest_class, m) ==
    IF smallest_class <= m THEN "Insufficient data - collect more samples"
    ELSE IF smallest_class <= m * 2 THEN "90/10 split (limited data)"
    ELSE IF smallest_class <= m * 3 THEN "80/20 split (recommended)"
    ELSE "70/30 or 80/20 split"
calculate_split_recommendation(smallest_class, m) ==
    IF smallest_class < m THEN "Insufficient data - collect more samples"
    ELSE IF smallest_class < m * 2 THEN "90/10 split (limited data)"
    ELSE IF smallest_class < m * 3 THEN "80/20 split (recommended)"
    ELSE "70/30 or 80/20 split"

\* classes_with_min_samples >= max(2, len(class_counts) * 0.7)
ReadyWithoutFloorOfTwo(sufficient, unique) == 10 * sufficient >= 7 * unique
ReadyForTraining(sufficient, unique) ==
    sufficient >= 2 /\ 10 * sufficient >= 7 * unique

\* results["per_code_column"][col]
PerCodeColumn(d, desc, col, m) ==
    LET cc == ClassCounts(d, desc, col)
        sizes == {cc[c] : c \in DOMAIN cc}
        sufficient == ClassesWithMinSamples(cc, m)
    IN  IF ValidRows(d, desc, col) = {}
        THEN [ status |-> "insufficient_data",
               unique_classes |-> 0,
               ready_for_training |-> FALSE ]
        ELSE [ total_samples |-> SumF(cc),
               unique_classes |-> Cardinality(DOMAIN cc),
               classes_with_sufficient_data |-> sufficient,
               classes_needing_more_data |-> Cardinality(DOMAIN cc) - sufficient,
               min_class_size |-> SetMin(sizes),
               max_class_size |-> SetMax(sizes),
               median_class_size |-> MedianClassTimes2(cc) \div 2,
               class_imbalance_ratio |-> RoundDiv(SetMax(sizes) * Centi, SetMin(sizes)),
               avg_description_uniqueness |-> AvgDescriptionUniqueness(d, desc, col),
               ambiguous_descriptions |-> AmbiguousDescriptions(d, desc, col),
               ready_for_training |-> ReadyForTraining(sufficient, Cardinality(DOMAIN cc)),
               recommended_train_test_split |->
                   calculate_split_recommendation(SetMin(sizes), m) ]

\* df[[description_col, col]] raises KeyError for a missing column, and
\* ready_columns / len(code_cols) raises ZeroDivisionError for no code column
ClassifierReadinessRaises(desc, cols) ==
    \/ Len(cols) = 0
    \/ NoColumn(desc)
    \/ \E col \in Range(cols) : NoColumn(col)

\* the number of columns the percentage is taken over
ViabilityDenominator(per, cols) == Len(cols)

TrainingViability(per, cols) ==
    LET ready == Cardinality({c \in DOMAIN per : Get(per[c], "ready_for_training", FALSE)})
    IN  [ columns_ready |-> ready,
          columns_not_ready |-> Len(cols) - ready,
          readiness_pct |->
              RoundDiv(ready * 100 * Centi, ViabilityDenominator(per, cols)) ]

\* the issues of one column, in the order they are appended
ColumnIssuesAtLimit(col, metrics) ==
    (IF Get(metrics, "ambiguous_descriptions", 0) >= 10
     THEN <<[column |-> col, issue |-> "ambiguous descriptions",
             value |-> metrics.ambiguous_descriptions]>>
     ELSE <<>>)
    \o
    (IF Get(metrics, "class_imbalance_ratio", 0) >= 100 * Centi
     THEN <<[column |-> col, issue |-> "Severe class imbalance",
             value |-> metrics.class_imbalance_ratio]>>
     ELSE <<>>)
ColumnIssuesFlaggingStatus(col, metrics) ==
    IF "status" \in DOMAIN metrics
    THEN <<[column |-> col, issue |-> "insufficient data", value |-> 0]>>
    ELSE (IF metrics.ambiguous_descriptions > 10
          THEN <<[column |-> col, issue |-> "ambiguous descriptions",
                  value |-> metrics.ambiguous_descriptions]>>
          ELSE <<>>)
         \o
         (IF metrics.class_imbalance_ratio > 100 * Centi
          THEN <<[column |-> col, issue |-> "Severe class imbalance",
                  value |-> metrics.class_imbalance_ratio]>>
          ELSE <<>>)
ColumnIssues(col, metrics) ==
    (IF Get(metrics, "ambiguous_descriptions", 0) > 10
     THEN <<[column |-> col, issue |-> "ambiguous descriptions",
             value |-> metrics.ambiguous_descriptions]>>
     ELSE <<>>)
    \o
    (IF Get(metrics, "class_imbalance_ratio", 0) > 100 * Centi
     THEN <<[column |-> col, issue |-> "Severe class imbalance",
             value |-> metrics.class_imbalance_ratio]>>
     ELSE <<>>)

RECURSIVE DataQualityIssues(_, _)
\* the issues of the columns keys, a sequence, in that order
DataQualityIssues(per, keys) ==
    IF keys = <<>> THEN <<>>
    ELSE ColumnIssues(Head(keys), per[Head(keys)]) \o DataQualityIssues(per, Tail(keys))

analyze_classifier_readiness(d, desc, cols, m) ==
    LET per == [col \in Range(cols) |-> PerCodeColumn(d, desc, col, m)]
        viability == TrainingViability(per, cols)
    IN  [ per_code_column |-> per,
          training_viability |-> viability,
          data_quality_issues |-> DataQualityIssues(per, Dedup(cols)),
          overall_score |-> viability.readiness_pct ]

(***************************************************************************)
(* metrics/code_analysis.py                                                *)
(* (the most_common listing is not modelled)                               *)
(***************************************************************************)
\* the default of the rare_threshold parameter 0.005, in thousandths
RARE_CODE_THRESHOLD == 5

\* -(p * log2(p + 1e-10)) for p = a/b in lowest terms, as <<hi, lo>> with the
\* value hi * 10^-8 + lo * 10^-12 and lo in 0..9999, tabulated for the
\* proportions the generated datasets produce; the term of p = 1 is
\* -log2(1 + 1e-10), about -1.44e-10
EntropyTermTable ==
       (<<1, 1>> :> <<-1, 9856>>)
    @@ (<<1, 2>> :> <<49999999, 9856>>)
    @@ (<<1, 3>> :> <<52832083, 3429>>)
    @@ (<<2, 3>> :> <<38997500, 337>>)
    @@ (<<1, 4>> :> <<49999999, 9856>>)
    @@ (<<3, 4>> :> <<31127812, 4315>>)
    @@ (<<1, 5>> :> <<46438561, 8833>>)
    @@ (<<1, 6>> :> <<43082708, 3309>>)
    @@ (<<5, 6>> :> <<21919533, 8051>>)
    @@ (<<1, 7>> :> <<40105070, 3007>>)
    @@ (<<5, 7>> :> <<34673344, 7834>>)
    @@ (<<1, 8>> :> <<37499999, 9856>>)
    @@ (<<1, 9>> :> <<35221388, 8905>>)
    @@ (<<1, 10>> :> <<33219280, 9344>>)
    @@ (<<1, 11>> :> <<31449378, 3368>>)
    @@ (<<1, 12>> :> <<29874687, 4916>>)
    @@ (<<1, 13>> :> <<28464920, 8944>>)
    @@ (<<1, 14>> :> <<27195392, 2860>>)
    @@ (<<1, 15>> :> <<26045937, 2896>>)
    @@ (<<1, 16>> :> <<24999999, 9856>>)
    @@ (<<3, 16>> :> <<45281953, 971>>)
    @@ (<<1, 17>> :> <<24043899, 518>>)
    @@ (<<1, 18>> :> <<23166249, 9936>>)
    @@ (<<1, 19>> :> <<22357513, 2142>>)
    @@ (<<1, 20>> :> <<21609640, 4600>>)
    @@ (<<3, 20>> :> <<41054483, 8981>>)
    @@ (<<19, 20>> :> <<7030055, 2227>>)
    @@ (<<1, 21>> :> <<20915797, 2369>>)
    @@ (<<1, 22>> :> <<20270143, 7067>>)
    @@ (<<1, 23>> :> <<19667660, 6641>>)
    @@ (<<19, 23>> :> <<22769801, 7667>>)
    @@ (<<1, 24>> :> <<19104010, 4052>>)
    @@ (<<5, 24>> :> <<47146550, 1071>>)
    @@ (<<19, 24>> :> <<26681936, 4784>>)
    @@ (<<1, 25>> :> <<18575424, 7447>>)
    @@ (<<2, 25>> :> <<29150849, 5038>>)
    @@ (<<13, 25>> :> <<49057656, 5105>>)
    @@ (<<17, 25>> :> <<37834747, 6852>>)
    @@ (<<1, 26>> :> <<18078614, 2861>>)
    @@ (<<5, 26>> :> <<45740608, 1251>>)
    @@ (<<25, 26>> :> <<5440723, 8670>>)
    @@ (<<1, 27>> :> <<17610694, 4380>>)
    @@ (<<5, 27>> :> <<45054803, 8240>>)
    @@ (<<1, 32>> :> <<15624999, 9856>>)
    @@ (<<5, 32>> :> <<41844873, 5030>>)
    @@ (<<1, 34>> :> <<14963125, 9893>>)
    @@ (<<1, 37>> :> <<14079603, 6765>>)
    @@ (<<1, 40>> :> <<13304820, 2228>>)
    @@ (<<7, 40>> :> <<44005030, 5101>>)
    @@ (<<1, 41>> :> <<13067199, 9968>>)
    @@ (<<1, 50>> :> <<11287712, 3651>>)
    @@ (<<3, 50>> :> <<24353362, 1199>>)
    @@ (<<13, 50>> :> <<50528828, 2480>>)
    @@ (<<17, 50>> :> <<52917373, 8354>>)
    @@ (<<1, 51>> :> <<11122402, 6169>>)
    @@ (<<2, 51>> :> <<18323236, 6208>>)
    @@ (<<4, 51>> :> <<28803336, 10>>)
    @@ (<<25, 51>> :> <<50420056, 4658>>)
    @@ (<<26, 51>> :> <<49552208, 2593>>)
    @@ (<<50, 51>> :> <<2800897, 2598>>)
    @@ (<<1, 52>> :> <<10962384, 589>>)
    @@ (<<3, 52>> :> <<23743137, 7784>>)
    @@ (<<51, 52>> :> <<2747563, 8022>>)
    @@ (<<1, 53>> :> <<10807397, 697>>)
    @@ (<<2, 53>> :> <<17841209, 2481>>)
    @@ (<<3, 53>> :> <<23450705, 3847>>)
    @@ (<<4, 53>> :> <<28135248, 6993>>)
    @@ (<<50, 53>> :> <<7930591, 34>>)
    @@ (<<51, 53>> :> <<5340095, 7255>>)
    @@ (<<52, 53>> :> <<2696223, 1817>>)
    @@ (<<1, 75>> :> <<8305091, 5729>>)
    @@ (<<2, 75>> :> <<13943516, 4936>>)
    @@ (<<26, 75>> :> <<52983804, 3605>>)
    @@ (<<1, 96>> :> <<6859335, 9238>>)
    @@ (<<95, 96>> :> <<1494952, 8784>>)
    @@ (<<1, 97>> :> <<6804033, 8435>>)
    @@ (<<95, 97>> :> <<2943749, 6931>>)
    @@ (<<1, 100>> :> <<6643856, 1753>>)
    @@ (<<3, 100>> :> <<15176681, 527>>)
    @@ (<<51, 100>> :> <<49542973, 2235>>)
    @@ (<<53, 100>> :> <<48544593, 9518>>)
    @@ (<<1, 101>> :> <<6592288, 5824>>)
    @@ (<<2, 101>> :> <<11204379, 1593>>)
    @@ (<<3, 101>> :> <<15069056, 3678>>)
    @@ (<<4, 101>> :> <<18448362, 2935>>)
    @@ (<<5, 101>> :> <<21466749, 4304>>)
    @@ (<<50, 101>> :> <<50215608, 5488>>)
    @@ (<<51, 101>> :> <<49777319, 9656>>)
    @@ (<<52, 101>> :> <<49311021, 5299>>)
    @@ (<<53, 101>> :> <<48817251, 9598>>)
    @@ (<<95, 101>> :> <<8310701, 450>>)
    @@ (<<100, 101>> :> <<1421316, 1219>>)
    @@ (<<1, 102>> :> <<6541593, 4581>>)
    @@ (<<5, 102>> :> <<21325966, 8830>>)
    @@ (<<53, 102>> :> <<49077214, 7235>>)
    @@ (<<95, 102>> :> <<9553063, 4129>>)
    @@ (<<101, 102>> :> <<1407450, 7514>>)
    @@ (<<1, 114>> :> <<5993763, 1559>>)
    @@ (<<1, 115>> :> <<5952600, 299>>)
    @@ (<<1, 116>> :> <<5912052, 5676>>)
    @@ (<<95, 116>> :> <<23596475, 6284>>)
    @@ (<<1, 117>> :> <<5872106, 5835>>)
    @@ (<<95, 117>> :> <<24400312, 4377>>)
    @@ (<<1, 119>> :> <<5793964, 4926>>)
    @@ (<<5, 119>> :> <<19213822, 1218>>)
    @@ (<<95, 119>> :> <<25942356, 8955>>)
    @@ (<<1, 120>> :> <<5755742, 1486>>)
    @@ (<<1, 121>> :> <<5718068, 7767>>)
    @@ (<<5, 121>> :> <<18995599, 7475>>)
    @@ (<<95, 121>> :> <<27401425, 3985>>)
    @@ (<<1, 122>> :> <<5680932, 2295>>)
    @@ (<<5, 122>> :> <<18888562, 4556>>)
    @@ (<<95, 122>> :> <<28101446, 1143>>)
    @@ (<<1, 150>> :> <<4819212, 4459>>)
    @@ (<<53, 150>> :> <<53031737, 6552>>)
    @@ (<<101, 150>> :> <<38420885, 3070>>)
    @@ (<<1, 151>> :> <<4793645, 5083>>)
    @@ (<<2, 151>> :> <<8262787, 7198>>)
    @@ (<<3, 151>> :> <<11232004, 4331>>)
    @@ (<<4, 151>> :> <<13876568, 8315>>)
    @@ (<<50, 151>> :> <<52799620, 8316>>)
    @@ (<<51, 151>> :> <<52890694, 8631>>)
    @@ (<<52, 151>> :> <<52963033, 8277>>)
    @@ (<<53, 151>> :> <<53016998, 600>>)
    @@ (<<100, 151>> :> <<39374076, 1147>>)
    @@ (<<101, 151>> :> <<38807628, 4054>>)
    @@ (<<102, 151>> :> <<38231720, 8664>>)
    @@ (<<150, 151>> :> <<952256, 4918>>)
    @@ (<<1, 180>> :> <<4162140, 5946>>)
    @@ (<<179, 180>> :> <<799266, 7149>>)
    @@ (<<1, 181>> :> <<4143561, 2492>>)
    @@ (<<179, 181>> :> <<1585298, 1389>>)
    @@ (<<5, 184>> :> <<14134874, 6083>>)
    @@ (<<179, 184>> :> <<3866611, 9442>>)
    @@ (<<1, 185>> :> <<4071016, 9913>>)
    @@ (<<179, 185>> :> <<4602301, 2300>>)
    @@ (<<1, 186>> :> <<4053311, 1743>>)
    @@ (<<5, 186>> :> <<14024813, 7389>>)
    @@ (<<179, 186>> :> <<5326023, 1351>>)
    @@ (<<1, 198>> :> <<3853210, 3998>>)
    @@ (<<179, 198>> :> <<13157480, 2199>>)
    @@ (<<1, 199>> :> <<3837499, 7949>>)
    @@ (<<179, 199>> :> <<13745117, 444>>)
    @@ (<<1, 200>> :> <<3821928, 805>>)
    @@ (<<3, 200>> :> <<9088340, 5192>>)
    @@ (<<51, 200>> :> <<50271486, 6046>>)
    @@ (<<53, 200>> :> <<50772296, 9687>>)
    @@ (<<101, 200>> :> <<49775057, 6902>>)
    @@ (<<151, 200>> :> <<30611584, 4945>>)
    @@ (<<179, 200>> :> <<14323616, 9053>>)
    @@ (<<1, 201>> :> <<3806493, 3643>>)
    @@ (<<179, 201>> :> <<14893148, 5382>>)
    @@ (<<1, 203>> :> <<3776027, 5310>>)
    @@ (<<5, 203>> :> <<13161102, 9962>>)
    @@ (<<179, 203>> :> <<16005963, 623>>)
    @@ (<<1, 204>> :> <<3760992, 8003>>)
    @@ (<<5, 204>> :> <<13113963, 8265>>)
    @@ (<<179, 204>> :> <<16549564, 7319>>)
    @@ (<<1, 205>> :> <<3746087, 8390>>)
    @@ (<<179, 205>> :> <<17084835, 9276>>)
    @@ (<<1, 206>> :> <<3731310, 9211>>)
    @@ (<<5, 206>> :> <<13020806, 8601>>)
    @@ (<<179, 206>> :> <<17611927, 2844>>)

EntropyTerm(count, total) == EntropyTermTable[Frac(count, total)]

\* the limbs of an entropy value are the units of 10^-8 and of 10^-12
Limb == 10000

\* df[col].dropna().value_counts(): value -> number of rows
ValueCounts(d, col) ==
    LET present == {r \in DOMAIN d : NotNa(r[col])}
    IN  [v \in {r[col][1] : r \in present} |->
            SumF([r \in {x \in present : x[col] = Str(v)} |-> d[r]])]

\* calculate_entropy(value_counts): -np.sum(probabilities * np.log2(...)), as
\* <<hi, lo>>; the sum over no value is 0
calculate_entropy(vc) ==
    LET total == SumF(vc)
        hi == SumF([v \in DOMAIN vc |-> EntropyTerm(vc[v], total)[1]])
        lo == SumF([v \in DOMAIN vc |-> EntropyTerm(vc[v], total)[2]])
    IN  <<hi + lo \div Limb, lo % Limb>>

\* round(e, 4) of an entropy e = <<hi, lo>>, in units of 10^-4
RoundEntropy(e) ==
    LET q == e[1] \div Limb
        rest == (e[1] % Limb) * Limb + e[2]
        half == (Limb * Limb) \div 2
    IN  IF rest < half THEN q
        ELSE IF rest > half THEN q + 1
        ELSE IF q % 2 = 0 THEN q ELSE q + 1

\* value_counts[value_counts < total_rows * rare_threshold], rare_threshold in
\* thousandths
RareCodesOrEqual(vc, total_rows, rare_threshold) ==
    {v \in DOMAIN vc : vc[v] * 1000 <= total_rows * rare_threshold}
RareCodes(vc, total_rows, rare_threshold) ==
    {v \in DOMAIN vc : vc[v] * 1000 < total_rows * rare_threshold}

\* the length the rare_codes listing is cut to
MAX_RARE_LISTED == 20

\* rare_codes.to_dict() if len(rare_codes) <= 20 else the first 20 items
RareListing(vc, rare) ==
    IF Cardinality(rare) <= MAX_RARE_LISTED THEN [v \in rare |-> vc[v]]
    ELSE [v \in FirstByCount(vc, rare, MAX_RARE_LISTED) |-> vc[v]]

\* round((value_counts.iloc[0] / total_rows) * 100, 2) if len(value_counts) > 0 else 0
TopCodeConcentrationOfValues(vc, total_rows) ==
    IF DOMAIN vc = {} THEN 0
    ELSE RoundDiv(SetMax({vc[v] : v \in DOMAIN vc}) * 100 * Centi, SumF(vc))
TopCodeConcentration(vc, total_rows) ==
    IF DOMAIN vc = {} THEN 0
    ELSE RoundDiv(SetMax({vc[v] : v \in DOMAIN vc}) * 100 * Centi, total_rows)

CodeColumn(d, col, rare_threshold) ==
    LET vc == ValueCounts(d, col)
    IN  [ unique_codes |-> Cardinality(DOMAIN vc),
          rare_codes_count |-> Cardinality(RareCodes(vc, NRows(d), rare_threshold)),
          rare_codes |-> RareListing(vc, RareCodes(vc, NRows(d), rare_threshold)),
          distribution_entropy |-> RoundEntropy(calculate_entropy(vc)),
          top_code_concentration |-> TopCodeConcentration(vc, NRows(d)) ]

\* list(combinations(code_cols[:3], 2)), in the order of the loop
CoOccurrencePairsOfAll(cols) ==
    LET n == Len(cols)
        at == {q \in (1..n) \X (1..n) : q[1] < q[2]}
        before(q) == Cardinality({o \in at : o[1] < q[1] \/ (o[1] = q[1] /\ o[2] < q[2])})
    IN  [i \in 1..Cardinality(at) |->
            LET q == CHOOSE o \in at : before(o) = i - 1 IN <<cols[q[1]], cols[q[2]]>>]
CoOccurrencePairs(cols) ==
    LET first == SubSeq(cols, 1, Min2(Len(cols), 3))
        n == Len(first)
        at == {q \in (1..n) \X (1..n) : q[1] < q[2]}
        before(q) == Cardinality({o \in at : o[1] < q[1] \/ (o[1] = q[1] /\ o[2] < q[2])})
    IN  [i \in 1..Cardinality(at) |->
            LET q == CHOOSE o \in at : before(o) = i - 1 IN <<first[q[1]], first[q[2]]>>]

\* key = f"{col1}_x_{col2}"
PairKey(pair) == pair[1] \o "_x_" \o pair[2]

\* df.groupby([col1, col2]).size(): the groups are the pairs of values of the
\* rows where both columns hold a value, each with its number of rows
PairCounts(d, pair) ==
    LET present == {r \in DOMAIN d : NotNa(r[pair[1]]) /\ NotNa(r[pair[2]])}
    IN  [c \in {<<r[pair[1]][1], r[pair[2]][1]>> : r \in present} |->
            SumF([r \in {x \in present : <<x[pair[1]][1], x[pair[2]][1]>> = c} |-> d[r]])]

RECURSIVE SortedHead(_, _, _)
\* sort_values(ascending=False).head(n) of the entries S of the counts vc, as
\* the sequence of <<value, count>>; the order among equal counts is that of a
\* fixed order of the values
SortedHead(vc, S, n) ==
    IF n = 0 \/ S = {} THEN <<>>
    ELSE LET x == CHOOSE v \in S : \A u \in S : vc[v] >= vc[u]
         IN  <<<<x, vc[x]>>>> \o SortedHead(vc, S \ {x}, n - 1)

CoOccurrence(d, pair) ==
    LET pair_counts == PairCounts(d, pair)
    IN  [ unique_combinations |-> Cardinality(DOMAIN pair_counts),
          top_combinations |-> SortedHead(pair_counts, DOMAIN pair_counts, TOP_LISTED) ]

\* results["co_occurrence"]: a later pair of the same key replaces the earlier
CoOccurrenceRecord(d, cols) ==
    LET pairs == CoOccurrencePairs(cols)
        last(key) == SetMax({i \in DOMAIN pairs : PairKey(pairs[i]) = key})
    IN  [key \in {PairKey(pairs[i]) : i \in DOMAIN pairs} |->
            CoOccurrence(d, pairs[last(key)])]

\* round(min((avg_entropy / 5) * 100, 100), 2) with avg_entropy the mean of
\* the rounded entropies, 0 for no column
DistributionScoreOfFirstThree(entropies) ==
    IF entropies = <<>> THEN 0
    ELSE LET first == SubSeq(entropies, 1, Min2(Len(entropies), 3))
         IN  Min2(RoundDiv(SumSeq(first), 5 * Len(first)), 100 * Centi)
DistributionScore(entropies) ==
    IF entropies = <<>> THEN 0
    ELSE Min2(RoundDiv(SumSeq(entropies), 5 * Len(entropies)), 100 * Centi)

\* df[col] raises KeyError for a missing column
CodeDistributionRaises(cols) == \E col \in Range(cols) : NoColumn(col)

analyze_code_distribution(d, cols, rare_threshold) ==
    LET keys == Dedup(cols)
        cc == [col \in Range(cols) |-> CodeColumn(d, col, rare_threshold)]
    IN  [ code_columns |-> cc,
          co_occurrence |-> CoOccurrenceRecord(d, cols),
          overall_score |->
              DistributionScore([i \in DOMAIN keys |-> cc[keys[i]].distribution_entropy]) ]

(***************************************************************************)
(* config.py                                                               *)
(***************************************************************************)
\* the scoring weights, in hundredths
WEIGHTS ==
    [ completeness |-> 30,
      description_quality |-> 30,
      code_distribution |-> 20,
      classifier_readiness |-> 20 ]

\* the units of the unrounded weighted sum per unit of score: a score in
\* hundredths times a weight in hundredths
Scale == 10000

\* get_quality_level(score), score in units of 1/Scale
get_quality_level_closed_above(score) ==
    IF score > 90 * Scale THEN "excellent"
    ELSE IF score > 75 * Scale THEN "good"
    ELSE IF score > 60 * Scale THEN "fair"
    ELSE IF score > 40 * Scale THEN "poor"
    ELSE "critical"
get_quality_level(score) ==
    IF score >= 90 * Scale THEN "excellent"
    ELSE IF score >= 75 * Scale THEN "good"
    ELSE IF score >= 60 * Scale THEN "fair"
    ELSE IF score >= 40 * Scale THEN "poor"
    ELSE "critical"

(***************************************************************************)
(* analyzer.py: DataQualityAnalyzer                                        *)
(***************************************************************************)
Components == <<"completeness", "description_quality", "code_distribution",
                "classifier_readiness">>

\* scores: the four overall_score values read from self.results
ComponentScores(res) == [k \in Range(Components) |-> res[k].overall_score]

\* sum(scores[k] * WEIGHTS[k] for k in scores.keys()), in units of 1/Scale
WeightedSumUnweighted(scores, w) ==
    IF \E k \in DOMAIN scores : IsNaN(scores[k]) THEN NaN
    ELSE SumF([k \in DOMAIN scores |-> scores[k] * Centi])
WeightedSumEqualWeights(scores, w) ==
    IF \E k \in DOMAIN scores : IsNaN(scores[k]) THEN NaN
    ELSE SumF([k \in DOMAIN scores |-> scores[k] * 25])
WeightedSum(scores, w) ==
    IF \E k \in DOMAIN scores : IsNaN(scores[k]) THEN NaN
    ELSE SumF([k \in DOMAIN scores |-> scores[k] * w[k]])

\* WEIGHTS[k] raises KeyError for a component the dict does not hold
WeightLookupRaises(scores, w) == \E k \in DOMAIN scores : k \notin DOMAIN w

\* overall = sum(...) as the float the code holds, in units of 1/Scale: the
\* exact sum is a multiple of 10 of them, and a float sum of products that
\* are not all zero may lie just below or just above it
FloatSum(scores, w, err) ==
    LET exact == WeightedSum(scores, w)
    IN  IF IsNaN(exact) \/ exact = 0 THEN exact ELSE exact + err

\* round(overall, 2), in hundredths
RoundedOverall(overall) ==
    IF IsNaN(overall) THEN NaN ELSE RoundDiv(overall, Scale \div Centi)

\* one value of _calculate_overall_score
OverallRecord(scores, w, err) ==
    LET overall == FloatSum(scores, w, err)
    IN  [ overall_score |-> RoundedOverall(overall),
          quality_level |-> get_quality_level(overall),
          component_scores |-> scores ]

\* an optional argument: None, or the value given
None == <<>>
Given(x) == <<x>>

\* the characters of the column names
NameChars ==
    [ product_id |-> <<"p", "r", "o", "d", "u", "c", "t", "_", "i", "d">>,
      description |-> <<"d", "e", "s", "c", "r", "i", "p", "t", "i", "o", "n">>,
      code_1 |-> <<"c", "o", "d", "e", "_", "1">>,
      code_2 |-> <<"c", "o", "d", "e", "_", "2">> ]

\* sub in text, for sequences of characters
Contains(sub, text) ==
    \E i \in 0..(Len(text) - Len(sub)) : SubSeq(text, i + 1, i + Len(sub)) = sub

\* str.lower(), on the characters the names are made of
Lower(text) ==
    [i \in DOMAIN text |->
        CASE text[i] = "A" -> "a" [] text[i] = "B" -> "b" [] text[i] = "C" -> "c"
          [] OTHER -> text[i]]

\* the first column whose lower-cased name contains one of subs, or else
\* df.columns[fallback]
DetectColumn(subs, fallback) ==
    LET candidates ==
            SelectSeq(Columns, LAMBDA col :
                \E sub \in subs : Contains(sub, Lower(NameChars[col])))
    IN  IF candidates # <<>> THEN candidates[1] ELSE Columns[fallback]

_detect_product_id_col ==
    DetectColumn({<<"i", "d">>, <<"p", "r", "o", "d", "u", "c", "t">>}, 1)

_detect_description_col ==
    DetectColumn({<<"d", "e", "s", "c">>, <<"n", "a", "m", "e">>}, 2)

_detect_code_cols(pid, desc) == SelectSeq(Columns, LAMBDA col : col \notin {pid, desc})

\* bool(x) of an optional argument: None and the empty string or list are false
Truthy(arg, empty) == arg # None /\ arg[1] # empty

\* x or default
OrElse(arg, empty, default) == IF Truthy(arg, empty) THEN arg[1] ELSE default

\* self.results[key] = value
PutCarryingOver(res, key, value) ==
    [k \in DOMAIN res \cup {key} |->
        IF k # key THEN res[k]
        ELSE IF key \notin DOMAIN res THEN value
        ELSE [f \in DOMAIN value \cup {"seen_before"} |->
                 IF f = "seen_before" THEN TRUE ELSE value[f]]]
Put(res, key, value) ==
    [k \in DOMAIN res \cup {key} |-> IF k = key THEN value ELSE res[k]]

\* self.results = {}
EmptyResults == [k \in {} |-> 0]

\* DataQualityAnalyzer.__init__
Construct ==
    /\ pc = "init"
    /\ product_id_col' = OrElse(args.product_id_col, "", _detect_product_id_col)
    /\ description_col' = OrElse(args.description_col, "", _detect_description_col)
    /\ code_cols' = OrElse(args.code_cols, <<>>,
                           _detect_code_cols(product_id_col', description_col'))
    /\ results' = EmptyResults
    /\ pc' = "completeness"
    /\ UNCHANGED <<df, min_samples, args, weights, fperr, returned>>

\* the end of a call of analyze_all: it returns self.results or raises, and
\* leaves self.results and the dataset as they are then
Ended(outcome, res, d) == [outcome |-> outcome, results |-> res, df |-> d]

\* an exception leaves analyze_all
Raise ==
    /\ pc' = "raised"
    /\ UNCHANGED results
    /\ returned' = Append(returned, Ended("raised", results, df))

\* the largest number of calls of analyze_all on one analyzer
MaxRuns == 2

\* analyze_all is called again on the same analyzer
AnalyzeAgain ==
    /\ pc \in {"done", "raised"}
    /\ Len(returned) < MaxRuns
    /\ pc' = "completeness"
    /\ UNCHANGED <<inputs, results, returned>>

\* analyze_all, first call: analyze_completeness, which raises (KeyError) when
\* a column it reads is missing; an exception leaves analyze_all
RunCompleteness ==
    /\ pc = "completeness"
    /\ IF CompletenessRaises(product_id_col, description_col, code_cols)
       THEN Raise
       ELSE /\ results' = Put(results, "completeness",
                              analyze_completeness(df, product_id_col, description_col,
                                                   code_cols))
            /\ pc' = "description_quality"
            /\ UNCHANGED returned
    /\ UNCHANGED inputs

\* analyze_all, second call: analyze_description_quality, which raises
\* (KeyError) for a missing column and (ValueError) when no description is
\* non-null
RunDescriptionQuality ==
    /\ pc = "description_quality"
    /\ IF DescriptionQualityRaises(df, description_col)
       THEN Raise
       ELSE /\ results' = Put(results, "description_quality",
                              analyze_description_quality(df, description_col,
                                                          MIN_DESCRIPTION_LENGTH))
            /\ pc' = "code_distribution"
            /\ UNCHANGED returned
    /\ UNCHANGED inputs

\* analyze_all, third call: analyze_code_distribution, which raises (KeyError)
\* for a missing column
RunCodeDistribution ==
    /\ pc = "code_distribution"
    /\ IF CodeDistributionRaises(code_cols)
       THEN Raise
       ELSE /\ results' = Put(results, "code_distribution",
                              analyze_code_distribution(df, code_cols, RARE_CODE_THRESHOLD))
            /\ pc' = "classifier_readiness"
            /\ UNCHANGED returned
    /\ UNCHANGED inputs

\* analyze_all, fourth call: analyze_classifier_readiness, which raises
\* (KeyError) for a missing column and (ZeroDivisionError) for an empty list of
\* code columns
RunClassifierReadiness ==
    /\ pc = "classifier_readiness"
    /\ IF ClassifierReadinessRaises(description_col, code_cols)
       THEN Raise
       ELSE /\ results' = Put(results, "classifier_readiness",
                              analyze_classifier_readiness(df, description_col, code_cols,
                                                           min_samples))
            /\ pc' = "overall"
            /\ UNCHANGED returned
    /\ UNCHANGED inputs

\* analyze_all, last step: self.results["overall"] = self._calculate_overall_score(),
\* which raises (KeyError) when WEIGHTS lacks a component
CalculateOverallScore ==
    /\ pc = "overall"
    /\ IF WeightLookupRaises(ComponentScores(results), weights)
       THEN Raise
       ELSE /\ results' = Put(results, "overall",
                              OverallRecord(ComponentScores(results), weights, fperr))
            /\ pc' = "done"
            /\ returned' = Append(returned, Ended("done", results', df))
    /\ UNCHANGED inputs

\* analyze_all as one call on self.results = res: the results it leaves, and
\* whether an exception left it
analyze_all(res) ==
    IF CompletenessRaises(product_id_col, description_col, code_cols)
    THEN [raised |-> TRUE, results |-> res]
    ELSE LET r1 == Put(res, "completeness",
                       analyze_completeness(df, product_id_col, description_col, code_cols))
         IN  IF DescriptionQualityRaises(df, description_col)
             THEN [raised |-> TRUE, results |-> r1]
             ELSE LET r2 == Put(r1, "description_quality",
                                analyze_description_quality(df, description_col,
                                                            MIN_DESCRIPTION_LENGTH))
                  IN  IF CodeDistributionRaises(code_cols)
                      THEN [raised |-> TRUE, results |-> r2]
                      ELSE LET r3 == Put(r2, "code_distribution",
                                         analyze_code_distribution(df, code_cols,
                                                                   RARE_CODE_THRESHOLD))
                           IN  IF ClassifierReadinessRaises(description_col, code_cols)
                               THEN [raised |-> TRUE, results |-> r3]
                               ELSE LET r4 == Put(r3, "classifier_readiness",
                                                  analyze_classifier_readiness(
                                                      df, description_col, code_cols,
                                                      min_samples))
                                    IN  IF WeightLookupRaises(ComponentScores(r4), weights)
                                        THEN [raised |-> TRUE, results |-> r4]
                                        ELSE [raised |-> FALSE,
                                              results |->
                                                  Put(r4, "overall",
                                                      OverallRecord(ComponentScores(r4),
                                                                    weights, fperr))]

\* the call of one of the four analyzers raises
AnalyzerRaises(key) ==
    CASE key = "completeness" ->
             CompletenessRaises(product_id_col, description_col, code_cols)
      [] key = "description_quality" -> DescriptionQualityRaises(df, description_col)
      [] key = "code_distribution" -> CodeDistributionRaises(code_cols)
      [] key = "classifier_readiness" ->
             ClassifierReadinessRaises(description_col, code_cols)

\* the record one of the four analyzers returns: each is called with the
\* dataset and the column roles only
AnalyzerResultAfterOthers(key) ==
    CASE key = "completeness" ->
             analyze_completeness(df, product_id_col, description_col, code_cols)
      [] key = "description_quality" ->
             analyze_description_quality(df, description_col,
                 IF "completeness" \in DOMAIN results THEN MIN_DESCRIPTION_LENGTH ELSE 0)
      [] key = "code_distribution" ->
             analyze_code_distribution(df, code_cols, RARE_CODE_THRESHOLD)
      [] key = "classifier_readiness" ->
             analyze_classifier_readiness(df, description_col, code_cols, min_samples)
AnalyzerResult(key) ==
    CASE key = "completeness" ->
             analyze_completeness(df, product_id_col, description_col, code_cols)
      [] key = "description_quality" ->
             analyze_description_quality(df, description_col, MIN_DESCRIPTION_LENGTH)
      [] key = "code_distribution" ->
             analyze_code_distribution(df, code_cols, RARE_CODE_THRESHOLD)
      [] key = "classifier_readiness" ->
             analyze_classifier_readiness(df, description_col, code_cols, min_samples)

\* the four calls of analyze_all taken in any order: an analyzer that has not
\* run yet runs and stores its record under its key; the aggregator follows
\* the last of them
RunAnalyzer(key) ==
    /\ pc = "analyzers"
    /\ key \notin DOMAIN results
    /\ IF AnalyzerRaises(key)
       THEN Raise
       ELSE /\ results' = Put(results, key, AnalyzerResult(key))
            /\ pc' = IF Range(Components) \subseteq DOMAIN results'
                     THEN "overall" ELSE "analyzers"
            /\ UNCHANGED returned
    /\ UNCHANGED inputs

\* the length of the list _get_critical_issues returns: issues[:10]
MAX_CRITICAL_ISSUES == 10

\* the entries for the columns below 80% completeness, in the order of the
\* column_completeness record, which is that of keys; an entry holds the
\* column and the value its text shows
LowCompletenessIssues(cc, keys) ==
    LET low == SelectSeq(keys, LAMBDA col :
                   ~IsNaN(cc[col].completeness_pct)
                       /\ cc[col].completeness_pct < 80 * Centi)
    IN  [i \in DOMAIN low |->
            [column |-> low[i], issue |-> "Low completeness",
             value |-> cc[low[i]].completeness_pct]]

\* the entry for too_short_pct > 10
TooShortIssues(flags) ==
    IF ~IsNaN(flags.too_short_pct) /\ flags.too_short_pct > 10 * Centi
    THEN <<[column |-> "", issue |-> "descriptions are too short",
            value |-> flags.too_short_pct]>>
    ELSE <<>>

\* issues[:10]
LastIssues(issues) ==
    SubSeq(issues, Max2(1, Len(issues) - MAX_CRITICAL_ISSUES + 1), Len(issues))
FirstIssues(issues) == SubSeq(issues, 1, Min2(Len(issues), MAX_CRITICAL_ISSUES))

_get_critical_issues(res, keys) ==
    FirstIssues(LowCompletenessIssues(res["completeness"].column_completeness, keys)
                    \o TooShortIssues(res["description_quality"].quality_flags)
                    \o res["classifier_readiness"].data_quality_issues)

\* self.results["overall"] and the records _get_critical_issues reads raise
\* KeyError when absent
SummaryRaises(res) ==
    \E k \in {"overall", "completeness", "description_quality", "classifier_readiness"} :
        k \notin DOMAIN res

\* the dictionary get_summary returns
Summary(res) ==
    [ dataset_info |->
          [ total_rows |-> NRows(df), total_columns |-> Len(Columns),
            product_id_column |-> product_id_col,
            description_column |-> description_col,
            code_columns |-> code_cols ],
      overall_quality |-> res["overall"],
      critical_issues |->
          _get_critical_issues(res, AnalysedColumns(product_id_col, description_col,
                                                    code_cols)) ]

\* the end of a call of get_summary that returned
Summarised(res, d) ==
    [outcome |-> "summary", results |-> res, df |-> d, summary |-> Summary(res)]

\* analyze_all is called on the analyzer as constructed
CallAnalyzeAll ==
    /\ pc = "constructed"
    /\ pc' = "completeness"
    /\ UNCHANGED <<inputs, results, returned>>

\* get_summary: analyze_all first when self.results is empty, then the summary
\* of self.results; an exception of analyze_all or a KeyError leaves it
GetSummary ==
    /\ pc \in {"constructed", "done", "raised"}
    /\ Len(returned) < MaxRuns
    /\ LET run == IF results = EmptyResults THEN analyze_all(results)
                  ELSE [raised |-> FALSE, results |-> results]
       IN  /\ results' = run.results
           /\ IF run.raised \/ SummaryRaises(run.results)
              THEN /\ pc' = "raised"
                   /\ returned' = Append(returned, Ended("raised", run.results, df))
              ELSE /\ pc' = "done"
                   /\ returned' = Append(returned, Summarised(run.results, df))
    /\ UNCHANGED inputs

(***************************************************************************)
(* Inputs.                                                                 *)
(***************************************************************************)
\* the rows over the four columns with the given cells
Rows(ids, descs, codes1, codes2) ==
    [product_id : ids, description : descs, code_1 : codes1, code_2 : codes2]

RECURSIVE Datasets(_, _, _)
\* the datasets of at most g distinct rows of R, each with a multiplicity of C
Datasets(R, C, g) ==
    IF g = 0 THEN {EmptyFrame}
    ELSE LET smaller == Datasets(R, C, g - 1)
         IN  smaller \cup
             UNION {{[r \in DOMAIN b \cup {new} |-> IF r = new THEN n ELSE b[r]] :
                         new \in R \ DOMAIN b, n \in C} :
                    b \in {x \in smaller : Cardinality(DOMAIN x) = g - 1}}

ShortText == <<"a", "b">>
Text19 == Rep("a", 19)
Text20 == Rep("b", 20)
NumericText == <<"4", "2", "x">>
SpecialText == <<"#", "x", "!">>
BlankText == <<" ">>
EmptyText == <<>>
PaddedText == <<" ", "x", " ">>

CodeA == Str(<<"A">>)
CodeB == Str(<<"B">>)
CodeC == Str(<<"C">>)

\* the column roles as config.py names them, passed explicitly
ExplicitRoles ==
    /\ product_id_col = "product_id"
    /\ description_col = "description"

\* the roles were passed to the constructor as they are now; an empty
\* code_cols is what the constructor leaves on a frame that has no column
\* besides the identifier and the description
Constructed ==
    args = [ product_id_col |-> Given(product_id_col),
             description_col |-> Given(description_col),
             code_cols |-> IF code_cols = <<>> THEN None ELSE Given(code_cols) ]

\* the float sum lies below, on or above the exact one
FloatErrors == {-1, 0, 1}

(***************************************************************************)
(* Spec: analyze_all on a freshly constructed DataQualityAnalyzer.         *)
(***************************************************************************)
PipelineRows ==
    Rows({Str(<<"p">>)}, {Null, Str(ShortText), Str(Text20)},
         {Null, CodeA, CodeB}, {Null, CodeA})

Init ==
    /\ df \in Datasets(PipelineRows, {1, MIN_TRAINING_SAMPLES}, MaxDistinctRows)
    /\ ExplicitRoles
    /\ code_cols \in {<<>>, <<"code_1">>, <<"code_1", "code_2">>}
    /\ min_samples = MIN_TRAINING_SAMPLES
    /\ weights = WEIGHTS
    /\ fperr \in FloatErrors
    /\ results = EmptyResults
    /\ pc = "completeness"
    /\ Constructed
    /\ returned = <<>>

Next ==
    \/ RunCompleteness
    \/ RunDescriptionQuality
    \/ RunCodeDistribution
    \/ RunClassifierReadiness
    \/ CalculateOverallScore

Spec == Init /\ [][Next]_vars

(***************************************************************************)
(* SpecCompleteness: analyze_completeness on datasets with null, empty,    *)
(* blank and padded cells.                                                 *)
(***************************************************************************)
CompletenessRows ==
    Rows({Str(<<"p">>)}, {Null, Str(BlankText), Str(PaddedText)},
         {Null, Str(EmptyText), CodeA}, {Null, CodeA})

InitCompleteness ==
    /\ df \in Datasets(CompletenessRows, {1, 2}, MaxDistinctRows)
    /\ ExplicitRoles
    /\ code_cols \in {<<>>, <<"code_1">>, <<"code_1", "code_2">>}
    /\ min_samples = MIN_TRAINING_SAMPLES
    /\ weights = WEIGHTS
    /\ fperr = 0
    /\ results = EmptyResults
    /\ pc = "completeness"
    /\ Constructed
    /\ returned = <<>>

NextCompleteness == RunCompleteness

SpecCompleteness == InitCompleteness /\ [][NextCompleteness]_vars

(***************************************************************************)
(* SpecDescription: analyze_description_quality on datasets whose          *)
(* descriptions are short, long, numeric, special, repeated or missing.    *)
(***************************************************************************)
DescriptionRows ==
    Rows({Str(<<"p">>)},
         {Null, Str(EmptyText), Str(Text19), Str(Text20), Str(NumericText),
          Str(SpecialText)},
         {CodeA}, {Null})

InitDescription ==
    /\ df \in Datasets(DescriptionRows, {1, 2, 15, 85}, MaxDistinctRows)
    /\ ExplicitRoles
    /\ code_cols = <<"code_1">>
    /\ min_samples = MIN_TRAINING_SAMPLES
    /\ weights = WEIGHTS
    /\ fperr = 0
    /\ results = EmptyResults
    /\ pc = "description_quality"
    /\ Constructed
    /\ returned = <<>>

NextDescription == RunDescriptionQuality

SpecDescription == InitDescription /\ [][NextDescription]_vars

(***************************************************************************)
(* SpecReadiness: analyze_classifier_readiness on labelled datasets; the   *)
(* column code_2 is empty throughout.                                      *)
(***************************************************************************)
ReadinessRows ==
    Rows({Str(<<"p">>)}, {Null, Str(<<"x">>), Str(<<"y">>)},
         {Null, CodeA, CodeB, CodeC}, {Null})

InitReadiness ==
    /\ df \in Datasets(ReadinessRows, {2, 200}, MaxDistinctLabelled)
    /\ ExplicitRoles
    /\ code_cols \in {<<"code_1">>, <<"code_1", "code_2">>, <<"code_2", "code_1">>}
    /\ min_samples = MIN_TRAINING_SAMPLES
    /\ weights = WEIGHTS
    /\ fperr = 0
    /\ results = EmptyResults
    /\ pc = "classifier_readiness"
    /\ Constructed
    /\ returned = <<>>

NextReadiness == RunClassifierReadiness

SpecReadiness == InitReadiness /\ [][NextReadiness]_vars

(***************************************************************************)
(* SpecScore: _calculate_overall_score on the four analyzers' scores.      *)
(***************************************************************************)
\* component scores, in hundredths
ScoreSamples == {0, 3333, 3999, 5000, 7495, 8999, 9000, 10000}

InitScore ==
    /\ df = EmptyFrame
    /\ ExplicitRoles
    /\ code_cols = <<"code_1">>
    /\ min_samples = MIN_TRAINING_SAMPLES
    /\ weights = WEIGHTS
    /\ fperr \in FloatErrors
    /\ results \in [Range(Components) -> [overall_score : ScoreSamples]]
    /\ pc = "overall"
    /\ Constructed
    /\ returned = <<>>

NextScore == CalculateOverallScore

SpecScore == InitScore /\ [][NextScore]_vars

(***************************************************************************)
(* SpecSplit: analyze_classifier_readiness with class sizes at and next to *)
(* the limits of calculate_split_recommendation, for two thresholds.       *)
(***************************************************************************)
SplitRows ==
    Rows({Str(<<"p">>)}, {Null, Str(<<"x">>)}, {CodeA, CodeB}, {Null})

\* class sizes m - 1, m, 2m - 1, 2m, 3m - 1, 3m for m = 50, and 2 and 200
SplitCounts == {2, 49, 50, 99, 100, 149, 150, 200}

SplitThresholds == {MIN_TRAINING_SAMPLES, 2 * MIN_TRAINING_SAMPLES}

InitSplit ==
    /\ df \in Datasets(SplitRows, SplitCounts, MaxDistinctRows)
    /\ ExplicitRoles
    /\ code_cols = <<"code_1">>
    /\ min_samples \in SplitThresholds
    /\ weights = WEIGHTS
    /\ fperr = 0
    /\ results = EmptyResults
    /\ pc = "classifier_readiness"
    /\ Constructed
    /\ returned = <<>>

NextSplit == RunClassifierReadiness

SpecSplit == InitSplit /\ [][NextSplit]_vars

(***************************************************************************)
(* SpecDistribution: analyze_code_distribution on datasets whose column    *)
(* code_1 holds up to two frequent values, up to 22 values of one row each *)
(* and nulls; the column code_2 is empty throughout.                       *)
(***************************************************************************)
CodeRow(cell) ==
    [product_id |-> Str(<<"p">>), description |-> Str(<<"x">>), code_1 |-> cell,
     code_2 |-> Null]

\* a rows of code A, b rows of code B, k codes of one row each, z rows without
\* a code
DistributionFrame(a, b, k, z) ==
    LET rowsA == IF a > 0 THEN {CodeRow(CodeA)} ELSE {}
        rowsB == IF b > 0 THEN {CodeRow(CodeB)} ELSE {}
        rowsZ == IF z > 0 THEN {CodeRow(Null)} ELSE {}
        singles == {CodeRow(Str(Rep("r", i))) : i \in 1..k}
    IN  [r \in rowsA \cup rowsB \cup rowsZ \cup singles |->
            IF r \in rowsA THEN a ELSE IF r \in rowsB THEN b
            ELSE IF r \in rowsZ THEN z ELSE 1]

CountsOfA == {0, 95, 179}
CountsOfB == {0, 5}
SingleCodes == {0, 1, 2, 19, 20, 21, 22}
NullCodes == {0, 1}

InitDistribution ==
    /\ df \in {DistributionFrame(a, b, k, z) :
                  a \in CountsOfA, b \in CountsOfB, k \in SingleCodes, z \in NullCodes}
    /\ ExplicitRoles
    /\ code_cols \in {<<"code_1">>, <<"code_1", "code_2">>}
    /\ min_samples = MIN_TRAINING_SAMPLES
    /\ weights = WEIGHTS
    /\ fperr = 0
    /\ results = EmptyResults
    /\ pc = "code_distribution"
    /\ Constructed
    /\ returned = <<>>

NextDistribution == RunCodeDistribution

SpecDistribution == InitDistribution /\ [][NextDistribution]_vars

(***************************************************************************)
(* SpecConfig: _calculate_overall_score with config.WEIGHTS as shipped and *)
(* as a caller may have set it: a sum other than 1, a missing key, an      *)
(* extra key.                                                              *)
(***************************************************************************)
WeightConfigs ==
    { WEIGHTS,
      [WEIGHTS EXCEPT !["completeness"] = 50],
      [WEIGHTS EXCEPT !["completeness"] = 10],
      [completeness |-> 30, description_quality |-> 30, code_distribution |-> 40],
      [completeness |-> 30, description_quality |-> 30, code_distribution |-> 20,
       classifier_readiness |-> 10, timeliness |-> 10] }

ConfigScoreSamples == {0, 5000, 10000}

InitConfig ==
    /\ df = EmptyFrame
    /\ ExplicitRoles
    /\ code_cols = <<"code_1">>
    /\ min_samples = MIN_TRAINING_SAMPLES
    /\ weights \in WeightConfigs
    /\ fperr = 0
    /\ results \in [Range(Components) -> [overall_score : ConfigScoreSamples]]
    /\ pc = "overall"
    /\ Constructed
    /\ returned = <<>>

NextConfig == CalculateOverallScore

SpecConfig == InitConfig /\ [][NextConfig]_vars

(***************************************************************************)
(* SpecColumns: analyze_all with column roles that may name columns the    *)
(* dataset does not have.                                                  *)
(***************************************************************************)
ColumnsRows ==
    Rows({Str(<<"p">>)}, {Null, Str(ShortText)}, {Null, CodeA}, {Null, CodeB})

InitColumns ==
    /\ df \in Datasets(ColumnsRows, {1}, MaxDistinctRows)
    /\ product_id_col \in {"product_id", "sku"}
    /\ description_col \in {"description", "title"}
    /\ code_cols \in {<<>>, <<"code_1">>, <<"code_3">>, <<"code_1", "code_3">>,
                       <<"code_1", "code_2">>}
    /\ min_samples = MIN_TRAINING_SAMPLES
    /\ weights = WEIGHTS
    /\ fperr = 0
    /\ results = EmptyResults
    /\ pc = "completeness"
    /\ Constructed
    /\ returned = <<>>

SpecColumns == InitColumns /\ [][Next]_vars

(***************************************************************************)
(* SpecConstruct: DataQualityAnalyzer(df, ...) with each role given or     *)
(* left out.  Before the constructor has run the fields hold no role.      *)
(***************************************************************************)
ConstructRows ==
    Rows({Str(<<"p">>)}, {Null, Str(ShortText)}, {CodeA}, {CodeB})

InitConstruct ==
    /\ df \in Datasets(ConstructRows, {1}, MaxDistinctRows)
    /\ args \in [ product_id_col : {None, Given("product_id"), Given("code_1")},
                   description_col : {None, Given("description"), Given("code_2")},
                   code_cols : {None, Given(<<>>), Given(<<"code_1">>),
                                Given(<<"code_2", "code_1">>)} ]
    /\ product_id_col = ""
    /\ description_col = ""
    /\ code_cols = <<>>
    /\ min_samples = MIN_TRAINING_SAMPLES
    /\ weights = WEIGHTS
    /\ fperr = 0
    /\ results = EmptyResults
    /\ pc = "init"
    /\ returned = <<>>

NextConstruct == Construct

SpecConstruct == InitConstruct /\ [][NextConstruct]_vars

(***************************************************************************)
(* SpecRerun: analyze_all called repeatedly on one analyzer, the dataset   *)
(* and the roles left as they are.                                         *)
(***************************************************************************)
RerunRows ==
    Rows({Str(<<"p">>)}, {Null, Str(ShortText), Str(Text20)}, {Null, CodeA, CodeB},
         {Null})

InitRerun ==
    /\ df \in Datasets(RerunRows, {1, MIN_TRAINING_SAMPLES}, MaxDistinctRows)
    /\ ExplicitRoles
    /\ code_cols \in {<<>>, <<"code_1">>, <<"code_1", "code_2">>}
    /\ min_samples = MIN_TRAINING_SAMPLES
    /\ weights = WEIGHTS
    /\ fperr \in FloatErrors
    /\ results = EmptyResults
    /\ pc = "completeness"
    /\ Constructed
    /\ returned = <<>>

NextRerun == Next \/ AnalyzeAgain

SpecRerun == InitRerun /\ [][NextRerun]_vars

(***************************************************************************)
(* SpecIssues: analyze_classifier_readiness on datasets with k texts that  *)
(* each carry the codes A and B, and a and b further rows of A and of B.   *)
(***************************************************************************)
IssueRow(text, code) ==
    [product_id |-> Str(<<"p">>), description |-> Str(text), code_1 |-> code,
     code_2 |-> Null]

IssueFrame(k, a, b) ==
    LET both == {IssueRow(Rep("t", i), c) : i \in 1..k, c \in {CodeA, CodeB}}
        rowsA == IF a > 0 THEN {IssueRow(<<"u">>, CodeA)} ELSE {}
        rowsB == IF b > 0 THEN {IssueRow(<<"v">>, CodeB)} ELSE {}
    IN  [r \in both \cup rowsA \cup rowsB |->
            IF r \in rowsA THEN a ELSE IF r \in rowsB THEN b ELSE 1]

SharedTexts == {0, 1, 9, 10, 11, 12}
FurtherA == {0, 2, 200, 201}
FurtherB == {0, 2}

InitIssues ==
    /\ df \in {IssueFrame(k, a, b) : k \in SharedTexts, a \in FurtherA, b \in FurtherB}
    /\ ExplicitRoles
    /\ code_cols \in {<<"code_1">>, <<"code_2", "code_1">>}
    /\ min_samples = MIN_TRAINING_SAMPLES
    /\ weights = WEIGHTS
    /\ fperr = 0
    /\ results = EmptyResults
    /\ pc = "classifier_readiness"
    /\ Constructed
    /\ returned = <<>>

NextIssues == RunClassifierReadiness

SpecIssues == InitIssues /\ [][NextIssues]_vars

(***************************************************************************)
(* SpecWide: analyze_code_distribution on datasets of four code columns,   *)
(* each column null throughout or cycling through a number of values; the  *)
(* list of code columns is the one handed to the function, which may be    *)
(* empty.                                                                  *)
(***************************************************************************)
\* the value of row i in a column that cycles through m values; no value for
\* m = 0
CycleCell(i, m) == IF m = 0 THEN Null ELSE Str(Rep("v", 1 + ((i - 1) % m)))

\* n rows of distinct identifiers; column code_j cycles through cycle[j] values
WideFrame(n, cycle) ==
    [r \in {[product_id |-> Str(Rep("p", i)), description |-> Str(<<"x">>),
             code_1 |-> CycleCell(i, cycle[1]), code_2 |-> CycleCell(i, cycle[2]),
             code_3 |-> CycleCell(i, cycle[3]), code_4 |-> CycleCell(i, cycle[4])] :
                i \in 1..n} |-> 1]

WideSizes == {1, 3, 32, 40}

\* the cycles of the four code columns for n rows
WideCycles(n) ==
    { <<n, n, n, n>>, <<4, 6, 1, n>>, <<n, 4, 6, 0>>, <<1, 0, 4, n>>,
      <<0, 0, 0, n>>, <<6, 4, n, n>>, <<1, 1, 1, 1>> }

WideCodeCols ==
    { <<>>, <<"code_1">>, <<"code_1", "code_2">>, <<"code_1", "code_2", "code_3">>,
      <<"code_1", "code_2", "code_3", "code_4">>,
      <<"code_4", "code_3", "code_2", "code_1">>, <<"code_2", "code_4">> }

InitWide ==
    /\ df \in UNION {{WideFrame(n, cycle) : cycle \in WideCycles(n)} : n \in WideSizes}
    /\ ExplicitRoles
    /\ code_cols \in WideCodeCols
    /\ min_samples = MIN_TRAINING_SAMPLES
    /\ weights = WEIGHTS
    /\ fperr = 0
    /\ results = EmptyResults
    /\ pc = "code_distribution"
    /\ args = [ product_id_col |-> Given(product_id_col),
                description_col |-> Given(description_col),
                code_cols |-> Given(code_cols) ]
    /\ returned = <<>>

NextWide == RunCodeDistribution

SpecWide == InitWide /\ [][NextWide]_vars

(***************************************************************************)
(* SpecSummary: analyze_all and get_summary called, in any sequence, on a  *)
(* freshly constructed DataQualityAnalyzer.                                *)
(***************************************************************************)
InitSummary ==
    /\ df \in Datasets(RerunRows, {1, MIN_TRAINING_SAMPLES}, MaxDistinctRows)
    /\ ExplicitRoles
    /\ code_cols \in {<<>>, <<"code_1">>, <<"code_1", "code_2">>}
    /\ min_samples = MIN_TRAINING_SAMPLES
    /\ weights = WEIGHTS
    /\ fperr = 0
    /\ results = EmptyResults
    /\ pc = "constructed"
    /\ Constructed
    /\ returned = <<>>

NextSummary == CallAnalyzeAll \/ Next \/ AnalyzeAgain \/ GetSummary

SpecSummary == InitSummary /\ [][NextSummary]_vars

(***************************************************************************)
(* SpecCritical: get_summary on results as analyze_all may have left them  *)
(* for a dataset of four code columns: completeness next to the limit of   *)
(* 80, too_short_pct next to the limit of 10, and readiness issues of the  *)
(* code columns.                                                           *)
(***************************************************************************)
FourCodeCols == <<"code_1", "code_2", "code_3", "code_4">>

\* completeness_pct of a column, in hundredths
CompletenessSamples == {7999, 8000}

\* too_short_pct, in hundredths
TooShortSamples == {1000, 1001}

\* the two entries analyze_classifier_readiness may add for a column
AmbiguityEntry(col) == [column |-> col, issue |-> "ambiguous descriptions", value |-> 11]
ImbalanceEntry(col) == [column |-> col, issue |-> "Severe class imbalance", value |-> 10050]

\* data_quality_issues: no entry or both for each of the first three code
\* columns, any of the four cases for the last
IssueLists ==
    { (IF b[1] THEN <<AmbiguityEntry("code_1"), ImbalanceEntry("code_1")>> ELSE <<>>)
      \o (IF b[2] THEN <<AmbiguityEntry("code_2"), ImbalanceEntry("code_2")>> ELSE <<>>)
      \o (IF b[3] THEN <<AmbiguityEntry("code_3"), ImbalanceEntry("code_3")>> ELSE <<>>)
      \o (IF b[4] THEN <<AmbiguityEntry("code_4")>> ELSE <<>>)
      \o (IF b[5] THEN <<ImbalanceEntry("code_4")>> ELSE <<>>) :
          b \in [1..5 -> BOOLEAN] }

\* self.results after analyze_all, as far as get_summary reads it
AnalysedResults ==
    { [ completeness |-> [column_completeness |-> cc],
        description_quality |-> [quality_flags |-> [too_short_pct |-> short]],
        code_distribution |-> [overall_score |-> 0],
        classifier_readiness |-> [data_quality_issues |-> issues],
        overall |-> [overall_score |-> 5000, quality_level |-> "poor"] ] :
          cc \in [{"product_id", "description"} \cup Range(FourCodeCols) ->
                     [completeness_pct : CompletenessSamples]],
          short \in TooShortSamples,
          issues \in IssueLists }

InitCritical ==
    /\ df = WideFrame(1, <<1, 1, 1, 1>>)
    /\ ExplicitRoles
    /\ code_cols = FourCodeCols
    /\ min_samples = MIN_TRAINING_SAMPLES
    /\ weights = WEIGHTS
    /\ fperr = 0
    /\ results \in AnalysedResults
    /\ pc = "done"
    /\ Constructed
    /\ returned = <<>>

NextCritical == GetSummary

SpecCritical == InitCritical /\ [][NextCritical]_vars

(***************************************************************************)
(* SpecAnyOrder: the four analyzers of analyze_all run in any order, the   *)
(* aggregator after the last of them.                                      *)
(***************************************************************************)
InitAnyOrder ==
    /\ df \in Datasets(RerunRows, {1, MIN_TRAINING_SAMPLES}, MaxDistinctRows)
    /\ ExplicitRoles
    /\ code_cols \in {<<>>, <<"code_1">>, <<"code_1", "code_2">>}
    /\ min_samples = MIN_TRAINING_SAMPLES
    /\ weights = WEIGHTS
    /\ fperr = 0
    /\ results = EmptyResults
    /\ pc = "analyzers"
    /\ Constructed
    /\ returned = <<>>

NextAnyOrder ==
    \/ \E key \in Range(Components) : RunAnalyzer(key)
    \/ CalculateOverallScore

SpecAnyOrder == InitAnyOrder /\ [][NextAnyOrder]_vars

(***************************************************************************)
(* SpecDuplicates: analyze_description_quality on datasets with texts that *)
(* occur three times, twice and once, and rows without a description.      *)
(***************************************************************************)
TextRow(cell) ==
    [product_id |-> Str(<<"p">>), description |-> cell, code_1 |-> CodeA,
     code_2 |-> Null]

\* k3 texts of three rows each, k2 of two, k1 of one, and z rows without text
DuplicateFrame(k3, k2, k1, z) ==
    LET rowsZ == IF z > 0 THEN {TextRow(Null)} ELSE {}
        texts == {TextRow(Str(Rep("d", i))) : i \in 1..(k3 + k2 + k1)}
    IN  [r \in texts \cup rowsZ |->
            IF r \in rowsZ THEN z
            ELSE IF Len(r.description[1]) <= k3 THEN 3
            ELSE IF Len(r.description[1]) <= k3 + k2 THEN 2 ELSE 1]

Triples == {0, 1, 3}
Doubles == {0, 1, 9, 10, 11}
Singles == {0, 1, 2}
NullTexts == {0, 1}

InitDuplicates ==
    /\ df \in {DuplicateFrame(k3, k2, k1, z) :
                  k3 \in Triples, k2 \in Doubles, k1 \in Singles, z \in NullTexts}
    /\ ExplicitRoles
    /\ code_cols = <<"code_1">>
    /\ min_samples = MIN_TRAINING_SAMPLES
    /\ weights = WEIGHTS
    /\ fperr = 0
    /\ results = EmptyResults
    /\ pc = "description_quality"
    /\ Constructed
    /\ returned = <<>>

NextDuplicates == RunDescriptionQuality

SpecDuplicates == InitDuplicates /\ [][NextDuplicates]_vars

(***************************************************************************)
(* Properties.                                                             *)
(***************************************************************************)
Abs(x) == IF x < 0 THEN -x ELSE x

\* value is an integer nearest to num / den
Nearest(value, num, den) == 2 * Abs(value * den - num) <= den

\* a percentage or score, in hundredths, within [0, 100]
InRange(x) == 0 <= x /\ x <= 100 * Centi

FourKeys == {"completeness", "description_quality", "code_distribution",
             "classifier_readiness"}

\* 0.30*completeness + 0.30*description_quality + 0.20*code_distribution
\* + 0.20*classifier_readiness of the scores in self.results, in units of 10^-4
StatedWeightedSum ==
    30 * results["completeness"].overall_score
    + 30 * results["description_quality"].overall_score
    + 20 * results["code_distribution"].overall_score
    + 20 * results["classifier_readiness"].overall_score

\* C1: _calculate_overall_score returns as overall_score the weighted sum
\* 0.30/0.30/0.20/0.20 of the four analyzers' overall_score values rounded to
\* 2 decimals (the hundredth nearest to the sum), and component_scores holds
\* exactly those four scores under the same four keys.
C1_OverallIsRoundedWeightedSum ==
    pc = "done" =>
        /\ Nearest(results["overall"].overall_score, StatedWeightedSum, 100)
        /\ DOMAIN results["overall"].component_scores = FourKeys
        /\ \A k \in FourKeys :
               results["overall"].component_scores[k] = results[k].overall_score

C1_Witness ==
    /\ pc = "done"
    /\ results["completeness"].overall_score = 9000
    /\ results["description_quality"].overall_score = 5000
    /\ results["code_distribution"].overall_score = 3333
    /\ results["classifier_readiness"].overall_score = 0
    /\ results["overall"].overall_score = 4867

Levels == <<"critical", "poor", "fair", "good", "excellent">>
Rank(level) == CHOOSE i \in DOMAIN Levels : Levels[i] = level

\* scores at, just below and just above every band limit, in units of 10^-4
BandProbes ==
    {limit * 10000 + e : limit \in {0, 40, 60, 75, 90, 100}, e \in {-1, 0, 1}}

\* C2: get_quality_level maps a score to exactly one level by half-open bands:
\* >= 90 excellent, [75, 90) good, [60, 75) fair, [40, 60) poor, < 40
\* critical; and a higher score never yields a worse level.
C2_QualityLevelBands ==
    pc = "done" =>
        LET score == FloatSum(ComponentScores(results), weights, fperr)
            level == results["overall"].quality_level
        IN  /\ level \in Range(Levels)
            /\ (level = "excellent") <=> (score >= 900000)
            /\ (level = "good") <=> (750000 <= score /\ score < 900000)
            /\ (level = "fair") <=> (600000 <= score /\ score < 750000)
            /\ (level = "poor") <=> (400000 <= score /\ score < 600000)
            /\ (level = "critical") <=> (score < 400000)
            /\ \A other \in BandProbes :
                   /\ other <= score => Rank(get_quality_level(other)) <= Rank(level)
                   /\ other >= score => Rank(get_quality_level(other)) >= Rank(level)

C2_Witness ==
    /\ pc = "done"
    /\ FloatSum(ComponentScores(results), weights, fperr) = 900000
    /\ results["overall"].quality_level = "excellent"

\* C3: once the four analyzers have returned, every *_pct field
\* (completeness_pct, too_short_pct, readiness_pct) and every overall_score of
\* the four analyzers and of the aggregate lies in [0, 100].
C3_PercentagesAndScoresInRange ==
    pc \in {"overall", "done"} =>
        /\ \A col \in DOMAIN results["completeness"].column_completeness :
               InRange(results["completeness"].column_completeness[col].completeness_pct)
        /\ InRange(results["completeness"].overall_score)
        /\ InRange(results["description_quality"].quality_flags.too_short_pct)
        /\ InRange(results["description_quality"].overall_score)
        /\ InRange(results["code_distribution"].overall_score)
        /\ InRange(results["classifier_readiness"].training_viability.readiness_pct)
        /\ InRange(results["classifier_readiness"].overall_score)
        /\ pc = "done" => InRange(results["overall"].overall_score)

C3_Witness ==
    /\ pc = "done"
    /\ results["classifier_readiness"].overall_score = 100 * Centi
    /\ results["description_quality"].quality_flags.too_short_pct = 100 * Centi
    /\ results["code_distribution"].overall_score > 0
    /\ results["overall"].overall_score > 0

\* the number of rows of df whose cell in col is non-null and non-empty after
\* trimming whitespace
PresentCells(col) ==
    CountRows(df, [r \in DOMAIN df |-> r[col] # Null /\ Strip(r[col][1]) # <<>>])

\* C4: in analyze_completeness a cell counts in non_empty_count only if it is
\* non-null and non-empty after trimming whitespace (a null cell and an empty
\* or whitespace-only string are both missing), so non_empty_count <=
\* non_null_count, for every analysed column.
C4_NonEmptyCountsPresentCells ==
    "completeness" \in DOMAIN results =>
        \A col \in DOMAIN results["completeness"].column_completeness :
            LET m == results["completeness"].column_completeness[col]
            IN  /\ m.non_empty_count = PresentCells(col)
                /\ m.non_empty_count <= m.non_null_count

\* C5: for every analysed column, missing_count + non_empty_count = total_rows
\* and completeness_pct is 100 * non_empty_count / total_rows rounded to 2
\* decimals and lies in [0, 100].
C5_ColumnCompletenessInvariant ==
    "completeness" \in DOMAIN results =>
        \A col \in DOMAIN results["completeness"].column_completeness :
            LET m == results["completeness"].column_completeness[col]
                total_rows == results["completeness"].total_rows
            IN  /\ total_rows = NRows(df)
                /\ m.missing_count + m.non_empty_count = total_rows
                /\ InRange(m.completeness_pct)
                /\ Nearest(m.completeness_pct, 100 * Centi * m.non_empty_count, total_rows)

\* C6: all_codes_present + no_codes_present + partial_codes = the number of
\* rows, for any list of code columns, the empty list included.
C6_RowClassesPartitionRows ==
    "completeness" \in DOMAIN results =>
        LET rc == results["completeness"].row_completeness
        IN  rc.all_codes_present + rc.no_codes_present + rc.partial_codes = NRows(df)

\* the rows of df with a non-null description
DescribedRows == {r \in DOMAIN df : r[description_col] # Null}

\* C7: over the N non-null descriptions, overall_score = max(0, 100
\* - min(30, 100*too_short/N) - min(20, 100*duplicate_groups/N)
\* - min(20, 100*mostly_numeric/N)) to 2 decimals, where too_short counts the
\* descriptions of length strictly below the threshold (20) and
\* too_short_pct = 100*too_short/N; the three penalties are capped separately.
C7_DescriptionScore ==
    "description_quality" \in DOMAIN results =>
        LET r == results["description_quality"]
            n == SumF([x \in DescribedRows |-> df[x]])
            too_short ==
                SumF([x \in {y \in DescribedRows : Len(y[description_col][1]) < 20} |-> df[x]])
            groups ==
                Cardinality({x[description_col] : x \in
                    {y \in DescribedRows :
                        SumF([z \in {w \in DescribedRows :
                                        w[description_col] = y[description_col]} |-> df[z]]) > 1}})
            numeric == r.quality_flags.mostly_numeric
            cap(limit, count) == IF 100 * count < limit * n THEN 100 * count ELSE limit * n
            exact == 100 * n - cap(30, too_short) - cap(20, groups) - cap(20, numeric)
        IN  /\ r.quality_flags.too_short = too_short
            /\ r.duplicates.duplicate_count = groups
            /\ Nearest(r.quality_flags.too_short_pct, 100 * Centi * too_short, n)
            /\ Nearest(r.overall_score, Centi * (IF exact < 0 THEN 0 ELSE exact), n)

C7_Witness ==
    /\ "description_quality" \in DOMAIN results
    /\ SumF([x \in DescribedRows |-> df[x]]) = 100
    /\ results["description_quality"].quality_flags.too_short = 15
    /\ results["description_quality"].quality_flags.too_short_pct = 15 * Centi
    /\ results["description_quality"].duplicates.duplicate_count = 2
    /\ results["description_quality"].overall_score = 83 * Centi

\* the rows of df usable for the code column col: description and code non-null
UsableRows(col) == {r \in DOMAIN df : r[description_col] # Null /\ r[col] # Null}

\* the classes of col among the usable rows, and their sizes
UsableClasses(col) == {r[col] : r \in UsableRows(col)}
ClassSize(col, c) == SumF([r \in {x \in UsableRows(col) : x[col] = c} |-> df[r]])

\* C8: for every code column with a usable row, ready_for_training is true
\* iff classes_with_sufficient_data >= max(2, 0.7 * unique_classes), the
\* sufficient classes being those of at least min_samples rows; so a column
\* with fewer than two sufficient classes is never ready.
C8_ReadyIffEnoughSufficientClasses ==
    "classifier_readiness" \in DOMAIN results =>
        \A col \in Range(code_cols) :
            UsableRows(col) # {} =>
                LET m == results["classifier_readiness"].per_code_column[col]
                    unique == Cardinality(UsableClasses(col))
                    sufficient ==
                        Cardinality({c \in UsableClasses(col) : ClassSize(col, c) >= min_samples})
                IN  /\ m.unique_classes = unique
                    /\ m.classes_with_sufficient_data = sufficient
                    /\ m.ready_for_training <=>
                           (sufficient >= 2 /\ 10 * sufficient >= 7 * unique)
                    /\ sufficient < 2 => ~m.ready_for_training

\* class sizes {200, 2} with min_samples = 50
C8_Witness ==
    /\ "classifier_readiness" \in DOMAIN results
    /\ min_samples = 50
    /\ {ClassSize("code_1", c) : c \in UsableClasses("code_1")} = {200, 2}
    /\ Cardinality(UsableClasses("code_1")) = 2
    /\ results["classifier_readiness"].per_code_column["code_1"].classes_with_sufficient_data = 1
    /\ ~results["classifier_readiness"].per_code_column["code_1"].ready_for_training

\* C9: readiness_pct and overall_score of analyze_classifier_readiness are the
\* percentage of ready columns among the columns that have usable rows: a
\* column with zero usable rows (insufficient_data) counts neither as ready
\* nor in the denominator.
C9_InsufficientColumnsExcluded ==
    "classifier_readiness" \in DOMAIN results =>
        LET r == results["classifier_readiness"]
            usable == {col \in Range(code_cols) : UsableRows(col) # {}}
            ready == {col \in usable : r.per_code_column[col].ready_for_training}
        IN  usable # {} =>
                /\ Nearest(r.training_viability.readiness_pct,
                           100 * Centi * Cardinality(ready), Cardinality(usable))
                /\ r.overall_score = r.training_viability.readiness_pct

\* the description texts of the usable rows of col that occur with two or
\* more distinct codes
AmbiguousTexts(col) ==
    {r[description_col] : r \in
        {x \in UsableRows(col) :
            \E y \in UsableRows(col) :
                y[description_col] = x[description_col] /\ y[col] # x[col]}}

\* C10: ambiguous_descriptions of a code column is the number of distinct
\* description texts, among the usable rows, that occur with two or more
\* distinct codes: a text with a single code adds 0 however often it repeats,
\* a text with k >= 2 codes adds exactly 1.
C10_AmbiguousCountsTexts ==
    "classifier_readiness" \in DOMAIN results =>
        \A col \in Range(code_cols) :
            UsableRows(col) # {} =>
                results["classifier_readiness"].per_code_column[col].ambiguous_descriptions
                    = Cardinality(AmbiguousTexts(col))

\* one text with three codes, another repeated with one code
C10_Witness ==
    /\ "classifier_readiness" \in DOMAIN results
    /\ Cardinality(UsableRows("code_1")) = 3
    /\ Cardinality(UsableClasses("code_1")) = 3
    /\ Cardinality({r[description_col] : r \in UsableRows("code_1")}) = 1
    /\ results["classifier_readiness"].per_code_column["code_1"].ambiguous_descriptions = 1

\* the four recommendations
SplitTiers ==
    { "Insufficient data - collect more samples", "90/10 split (limited data)",
      "80/20 split (recommended)", "70/30 or 80/20 split" }

\* the tier the smallest class size s falls in for the threshold m
StatedTier(s, m) ==
    CHOOSE t \in SplitTiers :
        /\ s < m <=> t = "Insufficient data - collect more samples"
        /\ (m <= s /\ s < 2 * m) <=> t = "90/10 split (limited data)"
        /\ (2 * m <= s /\ s < 3 * m) <=> t = "80/20 split (recommended)"
        /\ s >= 3 * m <=> t = "70/30 or 80/20 split"

\* C11: the split recommendation of a code column with usable rows is a
\* function of its smallest class size s and the threshold m alone, one of four
\* tiers: s < m insufficient data, m <= s < 2m 90/10, 2m <= s < 3m 80/20,
\* s >= 3m 70/30 or 80/20.
C11_SplitRecommendationTiers ==
    "classifier_readiness" \in DOMAIN results =>
        \A col \in Range(code_cols) :
            UsableRows(col) # {} =>
                LET s == SetMin({ClassSize(col, c) : c \in UsableClasses(col)})
                    t == results["classifier_readiness"].per_code_column[col]
                             .recommended_train_test_split
                IN  /\ t \in SplitTiers
                    /\ t = StatedTier(s, min_samples)

\* classes {200, 2} with m = 50
C11_Witness ==
    /\ "classifier_readiness" \in DOMAIN results
    /\ min_samples = 50
    /\ {ClassSize("code_1", c) : c \in UsableClasses("code_1")} = {200, 2}
    /\ results["classifier_readiness"].per_code_column["code_1"].recommended_train_test_split
           = "Insufficient data - collect more samples"

\* C12: for every code column with usable rows, classes_with_sufficient_data
\* is the number of classes of at least min_samples usable rows, it is at most
\* unique_classes, and with classes_needing_more_data it adds up to
\* unique_classes.
C12_SufficientClassesBounded ==
    "classifier_readiness" \in DOMAIN results =>
        \A col \in Range(code_cols) :
            UsableRows(col) # {} =>
                LET m == results["classifier_readiness"].per_code_column[col]
                IN  /\ m.unique_classes = Cardinality(UsableClasses(col))
                    /\ m.classes_with_sufficient_data =
                           Cardinality({c \in UsableClasses(col) :
                                           ClassSize(col, c) >= min_samples})
                    /\ m.classes_with_sufficient_data <= m.unique_classes
                    /\ m.classes_with_sufficient_data + m.classes_needing_more_data
                           = m.unique_classes

\* one class of exactly min_samples rows and one of a row less
C12_Witness ==
    /\ "classifier_readiness" \in DOMAIN results
    /\ {ClassSize("code_1", c) : c \in UsableClasses("code_1")}
           = {min_samples, min_samples - 1}
    /\ results["classifier_readiness"].per_code_column["code_1"].classes_with_sufficient_data = 1
    /\ results["classifier_readiness"].per_code_column["code_1"].classes_needing_more_data = 1

\* the values of the column col and the number of rows of df holding each
CodeValues(col) == {r[col] : r \in {x \in DOMAIN df : x[col] # Null}}
CodeCount(col, c) == SumF([r \in {x \in DOMAIN df : x[col] = c} |-> df[r]])

\* the values of col that occur in fewer than 0.005 * len(df) rows
StatedRare(col) == {c \in CodeValues(col) : 200 * CodeCount(col, c) < NRows(df)}

\* C13: in analyze_code_distribution (rare_threshold 0.005) a value is rare
\* exactly when its count is strictly below total_rows * rare_threshold,
\* total_rows counting the rows without a code too; rare_codes_count is the
\* number of rare values, and the rare_codes listing holds rare values with
\* their counts, never more than 20 of them.
C13_RareCodesStrictlyBelowBound ==
    "code_distribution" \in DOMAIN results =>
        \A col \in Range(code_cols) :
            LET m == results["code_distribution"].code_columns[col]
            IN  /\ m.rare_codes_count = Cardinality(StatedRare(col))
                /\ Cardinality(DOMAIN m.rare_codes) <= 20
                /\ Cardinality(DOMAIN m.rare_codes) = Min2(m.rare_codes_count, 20)
                /\ \A v \in DOMAIN m.rare_codes :
                       /\ Str(v) \in StatedRare(col)
                       /\ m.rare_codes[v] = CodeCount(col, Str(v))

\* 100 rows with the values {A: 95, B: 5}: the bound is 0.5 and no value is rare
C13_Witness ==
    /\ "code_distribution" \in DOMAIN results
    /\ NRows(df) = 100
    /\ CodeCount("code_1", CodeA) = 95
    /\ CodeCount("code_1", CodeB) = 5
    /\ results["code_distribution"].code_columns["code_1"].rare_codes_count = 0

\* log2(k) for k = 1..25, in units of 10^-4
Log2 ==
    << 0, 10000, 15850, 20000, 23219, 25850, 28074, 30000, 31699, 33219, 34594,
       35850, 37004, 38074, 39069, 40000, 40875, 41699, 42479, 43219, 43923,
       44594, 45236, 45850, 46439 >>

\* the value counts of the column col of df
CountsOf(col) == [c \in {v[1] : v \in CodeValues(col)} |-> CodeCount(col, Str(c))]

\* k equally frequent values
Uniform(k) == [i \in 1..k |-> 1]

\* e1 <= e2 for entropies <<hi, lo>>
EntropyLeq(e1, e2) == e1[1] < e2[1] \/ (e1[1] = e2[1] /\ e1[2] <= e2[2])

\* distribution_entropy of a column is at most that of k equally frequent
\* values, k the number of its values, and for equally frequent values it is
\* log2(k) to 4 decimals
C14_UniformIsMaximal ==
    "code_distribution" \in DOMAIN results =>
        \A col \in Range(code_cols) :
            LET vc == CountsOf(col)
                k == Cardinality(DOMAIN vc)
                reported == results["code_distribution"].code_columns[col].distribution_entropy
            IN  k >= 1 =>
                    /\ EntropyLeq(calculate_entropy(vc), calculate_entropy(Uniform(k)))
                    /\ reported <= RoundEntropy(calculate_entropy(Uniform(k)))
                    /\ (\A v, w \in DOMAIN vc : vc[v] = vc[w]) =>
                           /\ calculate_entropy(vc) = calculate_entropy(Uniform(k))
                           /\ Abs(reported - Log2[k]) <= 1

\* C14: calculate_entropy returns exactly 0 for a column with a single
\* distinct value; for k equally frequent values it returns the maximum over
\* the distributions on k values, log2(k) to 4 decimals, and no column
\* reports a larger distribution_entropy than k equally frequent values do.
C14_EntropyZeroAndMaximal ==
    "code_distribution" \in DOMAIN results =>
        /\ C14_UniformIsMaximal
        /\ \A col \in Range(code_cols) :
               Cardinality(CodeValues(col)) = 1 =>
                   calculate_entropy(CountsOf(col)) = <<0, 0>>

\* the weights sum to 1.0 and their keys are the four component keys
ValidWeights ==
    /\ DOMAIN weights = Range(Components)
    /\ SumF(weights) = 100

\* C15: aggregation produces an overall record only for weights that sum to
\* 1.0 and whose keys are the four component keys; for any other weights it
\* fails and produces none.
C15_InvalidWeightsFail ==
    pc \in {"done", "raised"} =>
        /\ ~ValidWeights => (pc = "raised" /\ "overall" \notin DOMAIN results)
        /\ ValidWeights => (pc = "done" /\ "overall" \in DOMAIN results)

\* the identifier column, the description column or a listed code column is
\* no column of the dataset
MissingColumn ==
    \E col \in {product_id_col, description_col} \cup Range(code_cols) :
        col \notin {"product_id", "description", "code_1", "code_2"}

\* C16: when a required column name is absent from the dataset, analyze_all
\* never gets past its first analyzer: it fails there, it returns nothing and
\* self.results holds no analyzer record.
C16_MissingColumnFailsWhole ==
    MissingColumn =>
        /\ pc \in {"completeness", "raised"}
        /\ results = EmptyResults

\* the run has failed on a missing code column
C16_Witness ==
    /\ pc = "raised"
    /\ "code_3" \in Range(code_cols)
    /\ product_id_col = "product_id"
    /\ description_col = "description"
    /\ results = EmptyResults

\* C17: on a dataset of zero rows analyze_all fails as a whole: no analyzer
\* record and no overall record is computed from the empty dataset, none is
\* returned and none is left in self.results.
C17_EmptyDatasetFailsWhole ==
    NRows(df) = 0 =>
        /\ pc \in {"completeness", "raised"}
        /\ results = EmptyResults

\* the fields a consumer reads from the entry of a code column with usable rows
PerColumnFields ==
    { "total_samples", "unique_classes", "classes_with_sufficient_data",
      "classes_needing_more_data", "min_class_size", "max_class_size",
      "median_class_size", "class_imbalance_ratio", "avg_description_uniqueness",
      "ambiguous_descriptions", "ready_for_training", "recommended_train_test_split" }

\* C18: per_code_column holds an entry for every code column passed, and all
\* entries have the same set of fields, the entry of a column without usable
\* rows (insufficient_data) included: no per-column field is ever missing.
C18_PerColumnShapeStable ==
    "classifier_readiness" \in DOMAIN results =>
        LET per == results["classifier_readiness"].per_code_column
        IN  /\ DOMAIN per = Range(code_cols)
            /\ \A c1, c2 \in DOMAIN per : DOMAIN per[c1] = DOMAIN per[c2]
            /\ \A col \in DOMAIN per : PerColumnFields \subseteq DOMAIN per[col]

\* C19: every role passed to the constructor is used exactly as passed, an
\* empty list of code columns included; a role is auto-detected only when the
\* caller left it out.
C19_ExplicitRolesWin ==
    pc # "init" =>
        /\ args.product_id_col # None => product_id_col = args.product_id_col[1]
        /\ args.description_col # None => description_col = args.description_col[1]
        /\ args.code_cols # None => code_cols = args.code_cols[1]

C30_LevelIsBandOfReportedScore ==
    ("overall" \in DOMAIN results /\ ~IsNaN(results["overall"].overall_score)) =>
        results["overall"].quality_level
            = get_quality_level(results["overall"].overall_score * (Scale \div Centi))

\* C23: a code column without a usable row gets the entry {status:
\* insufficient_data, unique_classes: 0, ready_for_training: false} and nothing
\* else, the analyzer does not raise, data_quality_issues holds no issue of
\* that column, and every other code column is analysed over its usable rows.
C23_InsufficientColumnIsRecorded ==
    /\ pc # "raised"
    /\ "classifier_readiness" \in DOMAIN results =>
           LET r == results["classifier_readiness"]
           IN  \A col \in Range(code_cols) :
                   IF UsableRows(col) = {}
                   THEN /\ r.per_code_column[col] =
                               [ status |-> "insufficient_data", unique_classes |-> 0,
                                 ready_for_training |-> FALSE ]
                        /\ \A i \in DOMAIN r.data_quality_issues :
                               r.data_quality_issues[i].column # col
                   ELSE /\ "status" \notin DOMAIN r.per_code_column[col]
                        /\ r.per_code_column[col].total_samples =
                               SumF([x \in UsableRows(col) |-> df[x]])

\* an empty column listed before a column with usable rows
C23_Witness ==
    /\ "classifier_readiness" \in DOMAIN results
    /\ code_cols = <<"code_2", "code_1">>
    /\ UsableRows("code_2") = {}
    /\ UsableRows("code_1") # {}
    /\ results["classifier_readiness"].per_code_column["code_2"].status = "insufficient_data"
    /\ results["classifier_readiness"].per_code_column["code_1"].total_samples = 402

\* the entries of data_quality_issues for the column col and the issue kind
IssuesOf(col, kind) ==
    LET issues == results["classifier_readiness"].data_quality_issues
    IN  {i \in DOMAIN issues : issues[i].column = col /\ issues[i].issue = kind}

\* C24: class_imbalance_ratio of a code column is its largest class size over
\* its smallest, to 2 decimals; data_quality_issues holds an ambiguity entry
\* for the column iff it has more than 10 ambiguous descriptions and an
\* imbalance entry iff its class_imbalance_ratio is above 100: a ratio of
\* exactly 100.0 and exactly 10 ambiguous descriptions are not flagged.
C24_IssuesStrictlyAboveLimits ==
    "classifier_readiness" \in DOMAIN results =>
        \A col \in Range(code_cols) :
            UsableRows(col) # {} =>
                LET m == results["classifier_readiness"].per_code_column[col]
                    sizes == {ClassSize(col, c) : c \in UsableClasses(col)}
                IN  /\ Nearest(m.class_imbalance_ratio, 100 * SetMax(sizes), SetMin(sizes))
                    /\ IssuesOf(col, "ambiguous descriptions") # {}
                           <=> Cardinality(AmbiguousTexts(col)) > 10
                    /\ IssuesOf(col, "Severe class imbalance") # {}
                           <=> m.class_imbalance_ratio > 100 * Centi
                    /\ SetMax(sizes) = 100 * SetMin(sizes)
                           => IssuesOf(col, "Severe class imbalance") = {}
                    /\ Cardinality(IssuesOf(col, "ambiguous descriptions")) <= 1
                    /\ Cardinality(IssuesOf(col, "Severe class imbalance")) <= 1

\* classes {200, 2}: the ratio is exactly 100.0 and the column is not flagged
C24_Witness ==
    /\ "classifier_readiness" \in DOMAIN results
    /\ {ClassSize("code_1", c) : c \in UsableClasses("code_1")} = {200, 2}
    /\ results["classifier_readiness"].per_code_column["code_1"].class_imbalance_ratio
           = 100 * Centi
    /\ results["classifier_readiness"].data_quality_issues = <<>>

\* the number of rows of df whose description is the cell t
TextCount(t) == SumF([r \in {x \in DescribedRows : x[description_col] = t} |-> df[r]])

\* the description cells that occur in more than one row
RepeatedTexts == {t \in {r[description_col] : r \in DescribedRows} : TextCount(t) > 1}

\* C25: duplicate_count is the number of distinct non-null description texts
\* that occur more than once, total_duplicate_rows the rows of those groups
\* less one per group, and top_duplicates lists min(10, duplicate_count) of
\* those texts with their counts, none less frequent than a repeated text left
\* out; a text that occurs once is never listed.
C25_DuplicateReport ==
    "description_quality" \in DOMAIN results =>
        LET dup == results["description_quality"].duplicates
            top == dup.top_duplicates
        IN  /\ dup.duplicate_count = Cardinality(RepeatedTexts)
            /\ dup.total_duplicate_rows =
                   SumF([t \in RepeatedTexts |-> TextCount(t)]) - Cardinality(RepeatedTexts)
            /\ Cardinality(DOMAIN top) = Min2(10, Cardinality(RepeatedTexts))
            /\ \A t \in DOMAIN top :
                   /\ Str(t) \in RepeatedTexts
                   /\ top[t] = TextCount(Str(t))
                   /\ \A u \in RepeatedTexts :
                          u[1] \notin DOMAIN top => TextCount(u) <= top[t]

\* 14 repeated texts, three of them of three rows, and two texts of one row
C25_Witness ==
    /\ "description_quality" \in DOMAIN results
    /\ Cardinality(RepeatedTexts) = 14
    /\ Cardinality({r \in DescribedRows : df[r] = 1}) = 2
    /\ results["description_quality"].duplicates.duplicate_count = 14
    /\ results["description_quality"].duplicates.total_duplicate_rows = 17
    /\ Cardinality(DOMAIN results["description_quality"].duplicates.top_duplicates) = 10

\* C26: top_code_concentration of a code column is 100 * (count of its most
\* frequent value) / total_rows to 2 decimals, total_rows counting the rows
\* where the column is null as well; a column without any value is analysed
\* without an error and reports distribution_entropy 0 and
\* top_code_concentration 0.
C26_TopCodeConcentration ==
    /\ pc # "raised"
    /\ "code_distribution" \in DOMAIN results =>
           \A col \in Range(code_cols) :
               LET rec == results["code_distribution"].code_columns[col]
               IN  IF CodeValues(col) = {}
                   THEN /\ rec.distribution_entropy = 0
                        /\ rec.top_code_concentration = 0
                   ELSE Nearest(rec.top_code_concentration,
                                100 * Centi * SetMax({CodeCount(col, c) : c \in CodeValues(col)}),
                                NRows(df))

\* {A: 95, B: 5} over 100 rows beside a column that is null throughout, and
\* the same values over 101 rows, one of them without a code
C26_Witness ==
    /\ "code_distribution" \in DOMAIN results
    /\ code_cols = <<"code_1", "code_2">>
    /\ CodeValues("code_2") = {}
    /\ CodeCount("code_1", CodeA) = 95
    /\ CodeCount("code_1", CodeB) = 5
    /\ results["code_distribution"].code_columns["code_2"].top_code_concentration = 0
    /\ \/ /\ NRows(df) = 100
          /\ results["code_distribution"].code_columns["code_1"].top_code_concentration = 9500
       \/ /\ NRows(df) = 101
          /\ results["code_distribution"].code_columns["code_1"].top_code_concentration = 9406

\* the distinct code columns, as a set
CodeColumnSet == Range(code_cols)

\* the sum of the reported distribution_entropy of the code columns, in units
\* of 10^-4
EntropySum ==
    SumF([col \in CodeColumnSet |->
             results["code_distribution"].code_columns[col].distribution_entropy])

\* entropy lists (units of 10^-4) around the cap of 5 bits
EntropyProbes ==
    {<<e>> : e \in {0, 10000, 49999, 50000, 53219}}
        \cup {<<e, f>> : e \in {0, 49999, 53219}, f \in {0, 46439, 50001}}

\* C28: overall_score of analyze_code_distribution is
\* min(100, (mean of distribution_entropy over all code columns / 5) * 100) to
\* 2 decimals: every code column enters the mean, the score is 100 once the
\* mean reaches 5 bits, it is 0 for no code column, and a larger mean never
\* gives a smaller score.
C28_DistributionScoreFormula ==
    /\ "code_distribution" \in DOMAIN results =>
           LET score == results["code_distribution"].overall_score
               n == Cardinality(CodeColumnSet)
           IN  /\ DOMAIN results["code_distribution"].code_columns = CodeColumnSet
               /\ IF n = 0 THEN score = 0
                  ELSE IF EntropySum >= 5 * Limb * n THEN score = 100 * Centi
                  ELSE /\ Nearest(score, EntropySum, 5 * n)
                       /\ score <= 100 * Centi
    /\ \A e1, e2 \in EntropyProbes :
           SumSeq(e1) * Len(e2) <= SumSeq(e2) * Len(e1) =>
               DistributionScore(e1) <= DistributionScore(e2)

\* four code columns, the first three of a single value and the fourth of 40
\* values: the mean is log2(40) / 4 and the score 26.61
C28_Witness ==
    /\ "code_distribution" \in DOMAIN results
    /\ code_cols = <<"code_1", "code_2", "code_3", "code_4">>
    /\ NRows(df) = 40
    /\ results["code_distribution"].code_columns["code_1"].distribution_entropy = 0
    /\ results["code_distribution"].code_columns["code_4"].distribution_entropy = 53219
    /\ EntropySum = 53219
    /\ results["code_distribution"].overall_score = 2661

\* the positions i < j of the pairs among the first three code columns
FirstThreePairs ==
    {q \in (1..Min2(Len(code_cols), 3)) \X (1..Min2(Len(code_cols), 3)) : q[1] < q[2]}

\* the combinations of values of two columns in the rows that hold both
Combinations(col1, col2) ==
    {<<r[col1][1], r[col2][1]>> :
        r \in {x \in DOMAIN df : x[col1] # Null /\ x[col2] # Null}}

\* the number of rows with the combination c of values
CombinationCount(col1, col2, c) ==
    SumF([r \in {x \in DOMAIN df : x[col1] = Str(c[1]) /\ x[col2] = Str(c[2])} |-> df[r]])

\* C27: the co_occurrence record of analyze_code_distribution has exactly one
\* entry per unordered pair among the first min(n, 3) of the n code columns
\* (0, 1 or 3 entries), none for a pair with a fourth or later column; an
\* entry reports the number of distinct combinations of values and lists
\* min(10, that number) of them with their counts, in non-increasing order of
\* count, no combination left out being more frequent than a listed one.
C27_CoOccurrencePairsOfFirstThree ==
    "code_distribution" \in DOMAIN results =>
        LET co == results["code_distribution"].co_occurrence
        IN  /\ DOMAIN co =
                   {code_cols[q[1]] \o "_x_" \o code_cols[q[2]] : q \in FirstThreePairs}
            /\ Cardinality(DOMAIN co) \in {0, 1, 3}
            /\ Cardinality(DOMAIN co) = Cardinality(FirstThreePairs)
            /\ \A q \in FirstThreePairs :
                   LET col1 == code_cols[q[1]]
                       col2 == code_cols[q[2]]
                       entry == co[col1 \o "_x_" \o col2]
                       top == entry.top_combinations
                       listed == {top[i][1] : i \in DOMAIN top}
                   IN  /\ entry.unique_combinations = Cardinality(Combinations(col1, col2))
                       /\ Len(top) = Min2(10, entry.unique_combinations)
                       /\ Cardinality(listed) = Len(top)
                       /\ \A i \in DOMAIN top :
                              /\ top[i][1] \in Combinations(col1, col2)
                              /\ top[i][2] = CombinationCount(col1, col2, top[i][1])
                              /\ i > 1 => top[i - 1][2] >= top[i][2]
                              /\ \A c \in Combinations(col1, col2) \ listed :
                                     CombinationCount(col1, col2, c) <= top[i][2]

\* four code columns over 40 rows, the first two cycling through 4 and 6
\* values: 3 entries, and of the 12 combinations of code_1 and code_2 the 4 of
\* four rows lead the 10 listed
C27_Witness ==
    /\ "code_distribution" \in DOMAIN results
    /\ code_cols = <<"code_1", "code_2", "code_3", "code_4">>
    /\ DOMAIN results["code_distribution"].co_occurrence =
           {"code_1_x_code_2", "code_1_x_code_3", "code_2_x_code_3"}
    /\ LET entry == results["code_distribution"].co_occurrence["code_1_x_code_2"]
       IN  /\ entry.unique_combinations = 12
           /\ Len(entry.top_combinations) = 10
           /\ entry.top_combinations[4][2] = 4
           /\ entry.top_combinations[5][2] = 3

FiveKeys == FourKeys \cup {"overall"}

\* no call of analyze_all or get_summary is under way
AtRest == pc \in {"constructed", "done", "raised"}

\* C29: after any sequence of analyze_all and get_summary calls, raising ones
\* included, self.results is empty or holds all five keys, and so get_summary
\* never fails on a missing record.
C29_ResultsEmptyOrComplete ==
    AtRest => (results = EmptyResults \/ DOMAIN results = FiveKeys)

\* get_summary, called after an analyze_all that raised, found results that
\* are neither empty nor complete and failed on the missing record
PartialResultsReachSummary ==
    /\ Len(returned) = 2
    /\ returned[1].outcome = "raised"
    /\ returned[1].results # EmptyResults
    /\ returned[2].outcome = "raised"
    /\ returned[2].results = returned[1].results
    /\ "overall" \notin DOMAIN results

\* the analysed columns below 80% completeness in the results res, in the
\* order identifier, description, code columns
ColumnsBelow80(res) ==
    SelectSeq(<<product_id_col, description_col>> \o code_cols,
              LAMBDA col :
                  res["completeness"].column_completeness[col].completeness_pct < 8000)

\* 1 when too_short_pct is above 10, else 0
TooShortAbove10(res) ==
    IF res["description_quality"].quality_flags.too_short_pct > 1000 THEN 1 ELSE 0

\* C21: _get_critical_issues returns at most 10 issues: one entry per column
\* below 80% completeness in analysed-column order, then the too-short
\* warning if too_short_pct is above 10, then the data_quality_issues of the
\* classifier readiness; the list is cut to its first 10 entries and not
\* reordered, so that the entries dropped are the last ones.
C21_CriticalIssuesAreFirstTen ==
    \A n \in DOMAIN returned :
        returned[n].outcome = "summary" =>
            LET res == returned[n].results
                issues == returned[n].summary.critical_issues
                low == ColumnsBelow80(res)
                short == TooShortAbove10(res)
                dq == res["classifier_readiness"].data_quality_issues
            IN  /\ Len(issues) <= 10
                /\ Len(issues) = Min2(10, Len(low) + short + Len(dq))
                /\ \A j \in DOMAIN issues :
                       IF j <= Len(low)
                       THEN /\ issues[j].issue = "Low completeness"
                            /\ issues[j].column = low[j]
                       ELSE IF j <= Len(low) + short
                       THEN issues[j].issue = "descriptions are too short"
                       ELSE issues[j] = dq[j - Len(low) - short]

\* 6 columns below 80, the too-short warning and 8 readiness issues: the 10
\* returned end with the first 3 readiness issues
C21_Witness ==
    /\ Len(returned) >= 1
    /\ returned[1].outcome = "summary"
    /\ Len(ColumnsBelow80(results)) = 6
    /\ TooShortAbove10(results) = 1
    /\ Len(results["classifier_readiness"].data_quality_issues) = 8
    /\ Len(returned[1].summary.critical_issues) = 10
    /\ returned[1].summary.critical_issues[7].issue = "descriptions are too short"
    /\ returned[1].summary.critical_issues[10] =
           results["classifier_readiness"].data_quality_issues[3]

RanOutOfOrder ==
    /\ pc = "analyzers"
    /\ DOMAIN results = {"classifier_readiness", "code_distribution"}

====
